---------------------------- MODULE Spec2Model ----------------------------
(***************************************************************************)
(* yc-sheduler: the job scheduler, the executor closure, the reconciling    *)
(* validator and the schedules reloader, as one state machine.              *)
(*                                                                          *)
(* Twelve specifications share the variables:                               *)
(*   Spec         the scheduler core: registration, job firing under the    *)
(*                concurrency cap, the executor closure, the validator tick;*)
(*   SpecReplace  the core with ReplaceSchedules arriving while jobs fire   *)
(*                and closures run;                                         *)
(*   SpecReload   the reloader: the schedules directory, its signature, the *)
(*                tick, the manifest loader and the reload callback;        *)
(*   SpecValidator  the validator: tick after tick over cfg.Schedules while *)
(*                the live state of the resources changes.                  *)
(*   SpecLastFire   the validator's last-fire computation over the calendar;  *)
(*   SpecWait     the core under fair scheduling: a job waiting at the cap;  *)
(*   SpecRepair   the validator and its corrective jobs under fair           *)
(*                scheduling, with the cloud calls succeeding;               *)
(*   SpecShutdown the core with cancellation, engine shutdown and exit;      *)
(*   SpecOnce     one-time jobs and ReplaceSchedules under fair scheduling;  *)
(*   SpecSteps    the validator, reloader and scheduler goroutines step by   *)
(*                step: mutex, shared schedule list, cancellation;           *)
(*   SpecStepsFair  SpecSteps with every goroutine kept running;             *)
(*   SpecCron     the two cron parsers over field expressions.               *)
(***************************************************************************)
EXTENDS Integers, Sequences, FiniteSets, TLC

\* ------------------------------------------------------------- bounds
MaxConcurrentJobs == 2
MaxTicks == 1
MaxReplace == 2
MaxReloads == 3
MaxValidatorTicks == 3
MaxNowDay == 364
MaxRepairTicks == 2
MaxStepReplace == 1
MaxCronFields == 7

\* ------------------------------------------------------- data: schedules
VM1 == [type |-> "vm", id |-> "vm-1"]
K8S1 == [type |-> "k8s_cluster", id |-> "k8s-1"]
Resources == {VM1, K8S1}

\* *ActionConfig: a nil pointer, or {Enabled, Time, Crontab}
NilAction == [nil |-> TRUE, enabled |-> FALSE, time |-> "", crontab |-> ""]
ActionConfig(t) == [nil |-> FALSE, enabled |-> TRUE, time |-> t, crontab |-> ""]
CronAction(c) == [nil |-> FALSE, enabled |-> TRUE, time |-> "", crontab |-> c]

Schedule(n, ty, r, st, sp) ==
    [name |-> n, type |-> ty, resource |-> r, start |-> st, stop |-> sp]

SchA == Schedule("a", "daily", VM1, ActionConfig("09:00"), NilAction)
SchA2 == Schedule("a", "daily", VM1, NilAction, ActionConfig("18:00"))
SchB == Schedule("b", "daily", VM1, ActionConfig("09:00"), ActionConfig("18:00"))
\* passes the manifest schema (time is an optional string) but cannot be registered
SchC == Schedule("c", "daily", K8S1, ActionConfig(""), NilAction)
SchK == Schedule("k", "daily", K8S1, ActionConfig("18:00"), ActionConfig("09:00"))
\* cron schedules; "0 9 29 2 *" fires on 29 February only
SchR == Schedule("r", "cron", VM1, CronAction("0 9 29 2 *"), CronAction("0 18 * * *"))
SchS == Schedule("s", "cron", K8S1, CronAction("0 9 * * *"), CronAction("0 9 29 2 *"))
SchT == Schedule("t", "cron", VM1, CronAction("0 9 * * *"), CronAction("0 18 * * *"))
\* both actions on 29 February only
SchRR == Schedule("rr", "cron", K8S1, CronAction("0 9 29 2 *"), CronAction("0 18 29 2 *"))
\* a start every half hour, 17520 firings a year
SchF == Schedule("f", "cron", VM1, CronAction("*/30 * * * *"), CronAction("0 18 * * *"))

hasStart(sch) == ~sch.start.nil /\ sch.start.enabled
hasStop(sch) == ~sch.stop.nil /\ sch.stop.enabled

\* an entry the schedules directory does not hold
NoFile == "<absent>"

\* the in-flight key resourceType:resourceID:action
lockKey(res, action) == <<res.type, res.id, action>>

\* ------------------------------------------------------------- state
VARIABLES
    dryRun,        \* App.dryRun, fixed at construction
    metrics,       \* App.metrics is not nil (cfg.MetricsEnabled), fixed at construction
    engine,        \* gocron scheduler: "new", "running", "stopping", "stopped"
    mu,            \* Scheduler.mu: "free" or the holder
    ctxDone,       \* the top-level context is cancelled
    atCancel,      \* the invocations that were in their operator call at the cancellation
    jobs,          \* the engine's jobs, in order of registration
    cfgSchedules,  \* cfg.Schedules, the list the validator walks
    locks,         \* the in-flight set of keys
    execs,         \* the invocations of job closures that have not returned
    returned,      \* the invocation that returned in the last step, if one did
    state,         \* live state of each cloud resource
    corrections,   \* IncValidatorCorrection calls, as <<resource type, action>>
    ticks,         \* validator ticks so far
    seen,          \* the instant and the state reports of the last observed tick
    lastFire,      \* the last-firing computation made last: its arguments and result
    replaces,      \* ReplaceSchedules calls so far
    lastReplace,   \* outcome of the last ReplaceSchedules: "none", "ok", "err"
    dir,           \* the schedules directory: file name -> data or NoFile
    dirReadable,   \* os.ReadDir succeeds
    watching,      \* Reloader.Start has run its initialisation
    lastSig,       \* Reloader.lastSig
    hasLastSig,    \* Reloader.hasLastSig
    reloadCalls,   \* onChange invocations so far
    lastReload,    \* outcome of the last onChange: "none", "ok", "load", "register"
    lastTick,      \* what the tick of the last step did, "none" if it was no tick
    callsSinceChange, \* onChange invocations since a schedule file last changed
    pass,          \* the validator goroutine: its position and the pass under way
    reloading      \* the reloader goroutine: its position and the reload under way

cfgVars == <<dryRun, metrics>>
calcVars == <<lastFire>>
engineVars == <<engine, mu, ctxDone, atCancel>>
execVars == <<locks, execs>>
tickVars == <<corrections, ticks, seen>>
replaceVars == <<replaces, lastReplace>>
stepVars == <<pass, reloading>>
reloadVars == <<dir, dirReadable, watching, lastSig, hasLastSig, reloadCalls,
                lastReload, lastTick, callsSinceChange>>
vars == <<dryRun, metrics, lastFire, engine, mu, ctxDone, atCancel, jobs, cfgSchedules, locks, execs,
          returned, state, corrections, ticks, seen, replaces, lastReplace,
          dir, dirReadable, watching, lastSig, hasLastSig, reloadCalls,
          lastReload, lastTick, callsSinceChange, pass, reloading>>

\* ------------------------------------------------ cloud resource client
States == {"running", "stopped", "provisioning"}

\* YCStateChecker.GetState: (state, isTransitional, error) for the live state s
GetState(s) ==
    { [err |-> TRUE, currentState |-> "", isTransitional |-> FALSE],
      [err |-> FALSE, currentState |-> s,
       isTransitional |-> s \notin {"running", "stopped"}] }

\* the state a successful Operator.Start / Operator.Stop leaves the resource in
OperatorEffect(action, s) ==
    IF action = "start" THEN "running"
    ELSE IF action = "stop" THEN "stopped" ELSE s

\* ------------------------------------------------------ in-flight lock
\* insert-if-absent: TRUE when the caller got the key
tryAcquireMut(held, key) == TRUE
tryAcquire(held, key) == key \notin held

insert(held, key) == held \cup {key}

releaseMut(held, key) == held
release(held, key) == held \ {key}

\* ---------------------------------------------------- executor closure
\* a metric increment, made only if the *Metrics is not nil: the label recorded
Inc(m, label) == IF m THEN <<label>> ELSE <<>>

\* what an invocation holds as the state query's result before it has asked
NotAsked == [err |-> FALSE, currentState |-> "", isTransitional |-> FALSE]

\* an invocation of the closure returned by Make: its position and what it
\* has recorded and called so far
Invocation(job, got) ==
    [name |-> job.name, tag |-> job.tag, resource |-> job.resource,
     action |-> job.action,
     pc |-> IF got THEN "locked" ELSE "done",
     inflight |-> ~got,                                    \* refused: its key was held
     ops |-> IF got THEN <<>> ELSE Inc(metrics, "skipped"),   \* IncOperation statuses
     skips |-> IF got THEN <<>> ELSE Inc(metrics, "in_flight"), \* IncSchedulerSkip reasons
     calls |-> 0,                                          \* operator calls made
     queries |-> 0,                                        \* GetState calls made
     opErr |-> FALSE,                                      \* the operator returned an error
     g |-> NotAsked]                                       \* what GetState returned

NoInvocation ==
    [name |-> <<>>, tag |-> "", resource |-> VM1, action |-> "", pc |-> "none",
     inflight |-> FALSE, ops |-> <<>>, skips |-> <<>>, calls |-> 0, queries |-> 0,
     opErr |-> FALSE, g |-> NotAsked]

\* the cloud side changes on its own: console actions, transitions (of the
\* resources some job manages; the others are never read)
EnvChange(r) ==
    /\ \E j \in DOMAIN jobs : jobs[j].resource = r
    /\ \E s \in States \ {state[r]} : state' = [state EXCEPT ![r] = s]
    /\ returned' = NoInvocation
    /\ UNCHANGED <<cfgVars, stepVars, calcVars, engineVars, jobs, cfgSchedules, execVars, tickVars,
                   replaceVars, reloadVars>>

\* Make, the closure body from its first statement up to the operator call:
\* dry-run, action validation, the state pre-check. g is what GetState returns
\* if it is asked. next = "inop": the operator is called.
MakeDryRunMut(action, dry, m, g) ==
    IF action \notin {"start", "stop"}
    THEN [next |-> "done", ops |-> Inc(m, "error"), skips |-> <<>>, queried |-> FALSE]
    ELSE IF ~g.err /\ g.isTransitional
    THEN [next |-> "done", ops |-> Inc(m, "skipped"),
          skips |-> Inc(m, "transitional_state"), queried |-> TRUE]
    ELSE IF ~g.err /\ ( (action = "start" /\ g.currentState = "running")
                        \/ (action = "stop" /\ g.currentState = "stopped") )
    THEN [next |-> "done", ops |-> Inc(m, "skipped"),
          skips |-> Inc(m, "already_in_state"), queried |-> TRUE]
    ELSE IF dry
    THEN [next |-> "done", ops |-> Inc(m, "dry_run"), skips |-> <<>>, queried |-> TRUE]
    ELSE [next |-> "inop", ops |-> <<>>, skips |-> <<>>, queried |-> TRUE]

MakeNoTransitionalMut(action, dry, m, g) ==
    IF dry
    THEN [next |-> "done", ops |-> Inc(m, "dry_run"), skips |-> <<>>, queried |-> FALSE]
    ELSE IF action \notin {"start", "stop"}
    THEN [next |-> "done", ops |-> Inc(m, "error"), skips |-> <<>>, queried |-> FALSE]
    ELSE IF ~g.err /\ ( (action = "start" /\ g.currentState = "running")
                        \/ (action = "stop" /\ g.currentState = "stopped") )
    THEN [next |-> "done", ops |-> Inc(m, "skipped"),
          skips |-> Inc(m, "already_in_state"), queried |-> TRUE]
    ELSE [next |-> "inop", ops |-> <<>>, skips |-> <<>>, queried |-> TRUE]

MakeStartOnlyCheckMut(action, dry, m, g) ==
    IF dry
    THEN [next |-> "done", ops |-> Inc(m, "dry_run"), skips |-> <<>>, queried |-> FALSE]
    ELSE IF action \notin {"start", "stop"}
    THEN [next |-> "done", ops |-> Inc(m, "error"), skips |-> <<>>, queried |-> FALSE]
    ELSE IF ~g.err /\ g.isTransitional
    THEN [next |-> "done", ops |-> Inc(m, "skipped"),
          skips |-> Inc(m, "transitional_state"), queried |-> TRUE]
    ELSE IF ~g.err /\ action = "start" /\ g.currentState = "running"
    THEN [next |-> "done", ops |-> Inc(m, "skipped"),
          skips |-> Inc(m, "already_in_state"), queried |-> TRUE]
    ELSE [next |-> "inop", ops |-> <<>>, skips |-> <<>>, queried |-> TRUE]

MakeFailClosedMut(action, dry, m, g) ==
    IF dry
    THEN [next |-> "done", ops |-> Inc(m, "dry_run"), skips |-> <<>>, queried |-> FALSE]
    ELSE IF action \notin {"start", "stop"}
    THEN [next |-> "done", ops |-> Inc(m, "error"), skips |-> <<>>, queried |-> FALSE]
    ELSE IF g.err
    THEN [next |-> "done", ops |-> Inc(m, "error"), skips |-> <<>>, queried |-> TRUE]
    ELSE IF g.isTransitional
    THEN [next |-> "done", ops |-> Inc(m, "skipped"),
          skips |-> Inc(m, "transitional_state"), queried |-> TRUE]
    ELSE IF (action = "start" /\ g.currentState = "running")
            \/ (action = "stop" /\ g.currentState = "stopped")
    THEN [next |-> "done", ops |-> Inc(m, "skipped"),
          skips |-> Inc(m, "already_in_state"), queried |-> TRUE]
    ELSE [next |-> "inop", ops |-> <<>>, skips |-> <<>>, queried |-> TRUE]

\* the closure without the already-in-state check
MakeNoStateCheckMut(action, dry, m, g) ==
    IF dry
    THEN [next |-> "done", ops |-> Inc(m, "dry_run"), skips |-> <<>>, queried |-> FALSE]
    ELSE IF action \notin {"start", "stop"}
    THEN [next |-> "done", ops |-> Inc(m, "error"), skips |-> <<>>, queried |-> FALSE]
    ELSE IF ~g.err /\ g.isTransitional
    THEN [next |-> "done", ops |-> Inc(m, "skipped"),
          skips |-> Inc(m, "transitional_state"), queried |-> TRUE]
    ELSE [next |-> "inop", ops |-> <<>>, skips |-> <<>>, queried |-> TRUE]

Make(action, dry, m, g) ==
    IF dry
    THEN [next |-> "done", ops |-> Inc(m, "dry_run"), skips |-> <<>>, queried |-> FALSE]
    ELSE IF action \notin {"start", "stop"}
    THEN [next |-> "done", ops |-> Inc(m, "error"), skips |-> <<>>, queried |-> FALSE]
    ELSE IF ~g.err /\ g.isTransitional
    THEN [next |-> "done", ops |-> Inc(m, "skipped"),
          skips |-> Inc(m, "transitional_state"), queried |-> TRUE]
    ELSE IF ~g.err /\ ( (action = "start" /\ g.currentState = "running")
                        \/ (action = "stop" /\ g.currentState = "stopped") )
    THEN [next |-> "done", ops |-> Inc(m, "skipped"),
          skips |-> Inc(m, "already_in_state"), queried |-> TRUE]
    ELSE [next |-> "inop", ops |-> <<>>, skips |-> <<>>, queried |-> TRUE]

RemoveAt(seq, i) == SubSeq(seq, 1, i - 1) \o SubSeq(seq, i + 1, Len(seq))

InOperator(key) ==
    { i \in DOMAIN execs :
        execs[i].pc = "inop" /\ lockKey(execs[i].resource, execs[i].action) = key }

\* the closure runs from its lock to the operator call, or to an early return
MakeRun(i) ==
    /\ i \in DOMAIN execs
    /\ execs[i].pc = "locked"
    /\ \E g \in GetState(state[execs[i].resource]) :
         LET e == execs[i]
             r == Make(e.action, dryRun, metrics, g)
             key == lockKey(e.resource, e.action)
             e2 == [e EXCEPT !.pc = r.next, !.ops = e.ops \o r.ops,
                             !.skips = e.skips \o r.skips,
                             !.queries = IF r.queried THEN 1 ELSE 0,
                             !.g = IF r.queried THEN g ELSE NotAsked,
                             !.calls = IF r.next = "inop" THEN 1 ELSE 0]
         IN IF r.next = "done"
            THEN /\ execs' = RemoveAt(execs, i)
                 /\ returned' = e2
                 /\ locks' = release(locks, key)
            ELSE /\ execs' = [execs EXCEPT ![i] = e2]
                 /\ returned' = NoInvocation
                 /\ UNCHANGED locks
    /\ UNCHANGED <<cfgVars, stepVars, calcVars, engineVars, jobs, cfgSchedules, state, tickVars,
                   replaceVars, reloadVars>>

\* the operator call returns: the outcome is recorded and the closure returns
OperatorReturnFallThroughMut(e, m, ok) ==
    [e EXCEPT !.pc = "done", !.opErr = ~ok,
              !.ops = e.ops \o (IF ok THEN <<>> ELSE Inc(m, "error"))
                            \o Inc(m, "success")]

OperatorReturnRetryMut(e, m, ok) ==
    [e EXCEPT !.pc = "done", !.opErr = ~ok,
              !.calls = IF ok THEN e.calls ELSE e.calls + 1,
              !.ops = e.ops \o Inc(m, IF ok THEN "success" ELSE "error")]

OperatorReturn(e, m, ok) ==
    [e EXCEPT !.pc = "done", !.opErr = ~ok,
              !.ops = e.ops \o Inc(m, IF ok THEN "success" ELSE "error")]

MakeReturn(i) ==
    /\ i \in DOMAIN execs
    /\ execs[i].pc = "inop"
    /\ \E ok \in BOOLEAN :
         LET e == execs[i]
             key == lockKey(e.resource, e.action)
         IN /\ execs' = RemoveAt(execs, i)
            /\ returned' = OperatorReturn(e, metrics, ok)
            /\ state' = IF ok
                        THEN [state EXCEPT ![e.resource] =
                                 OperatorEffect(e.action, state[e.resource])]
                        ELSE state
            /\ locks' = release(locks, key)
    /\ UNCHANGED <<cfgVars, stepVars, calcVars, engineVars, jobs, cfgSchedules, tickVars,
                   replaceVars, reloadVars>>

\* ------------------------------------------------------------ scheduler
managedScheduleTag == "managed_schedule"

ValidTimes == {"09:00", "18:00"}

\* schedule.ParseTime: TRUE when the HH:MM[:SS] string parses and is in range
ParseTime(t) == t # "" /\ t \in ValidTimes

\* ScheduleToJobDefinition: TRUE when a job definition is returned, FALSE on error
ScheduleToJobDefinition(sch, action) ==
    CASE sch.type = "cron" -> action.crontab # ""
      [] sch.type = "daily" -> action.time # "" /\ ParseTime(action.time)
      [] OTHER -> FALSE

Job(n, t, r, a, once) ==
    [name |-> n, tag |-> t, resource |-> r, action |-> a,
     oneshot |-> once, fired |-> FALSE]

\* addJobUnlocked: NewJob with the managed tag
addJobUnlocked(js, name, r, a) == Append(js, Job(name, managedScheduleTag, r, a, FALSE))

\* registerScheduleUnlocked: the start job, then the stop job; the first error
\* returns, leaving what was added before it
registerScheduleUnlocked(js, sch) ==
    IF hasStart(sch) /\ ~ScheduleToJobDefinition(sch, sch.start)
    THEN [jobs |-> js, err |-> TRUE]
    ELSE LET js1 == IF hasStart(sch)
                    THEN addJobUnlocked(js, <<sch.name, "start">>, sch.resource, "start")
                    ELSE js
         IN IF hasStop(sch) /\ ~ScheduleToJobDefinition(sch, sch.stop)
            THEN [jobs |-> js1, err |-> TRUE]
            ELSE [jobs |-> IF hasStop(sch)
                           THEN addJobUnlocked(js1, <<sch.name, "stop">>,
                                               sch.resource, "stop")
                           ELSE js1,
                  err |-> FALSE]

\* the loop of RegisterSchedules and ReplaceSchedules over the schedules from k on
RECURSIVE registerFrom(_, _, _)
registerFrom(js, schedules, k) ==
    IF k > Len(schedules)
    THEN [jobs |-> js, err |-> FALSE]
    ELSE LET r == registerScheduleUnlocked(js, schedules[k])
         IN IF r.err THEN r ELSE registerFrom(r.jobs, schedules, k + 1)

RegisterSchedules(js, schedules) == registerFrom(js, schedules, 1)

\* gocron RemoveByTags(managedScheduleTag)
RemoveByTagsAllMut(js) == <<>>
RemoveByTags(js) == SelectSeq(js, LAMBDA j : j.tag # managedScheduleTag)

ReplaceKeepOldMut(js, schedules) == registerFrom(js, schedules, 1)
ReplaceSchedules(js, schedules) == registerFrom(RemoveByTags(js), schedules, 1)

\* what removing jobs does to the closures of theirs that are running: the
\* closure works on its own context.Background(), nothing reaches it
afterRemoveCancelMut(es, js) ==
    SelectSeq(es, LAMBDA e : \E j \in DOMAIN js :
                               js[j].name = e.name /\ js[j].tag = e.tag)
afterRemove(es, js) == es

\* AddOneTimeJob: an untagged job that starts immediately, once
AddOneTimeJobOncePerNameMut(js, name, r, a) ==
    IF \E i \in DOMAIN js : js[i].name = name THEN js ELSE Append(js, Job(name, "", r, a, TRUE))
AddOneTimeJob(js, name, r, a) == Append(js, Job(name, "", r, a, TRUE))

\* ------------------------------------------------------------ validator
\* instants are slots of half an hour since an epoch midnight; the tick reads
\* one of Nows
HoursPerDay == 24
SlotsPerHour == 2
Day == HoursPerDay * SlotsPerHour
At(h) == h * SlotsPerHour
Nows == {Day + At(9), Day + At(10), Day + At(18), Day + At(20)}

\* parseTimeString: the hour of a valid time of day
TimeHour(t) == IF t = "09:00" THEN 9 ELSE 18

\* GetLastDailyTime: today's occurrence, or yesterday's if today's is not before now
GetLastDailyTime(t, now) ==
    IF ~ParseTime(t)
    THEN [err |-> TRUE, time |-> 0]
    ELSE LET today == (now \div Day) * Day + At(TimeHour(t))
         IN [err |-> FALSE,
             time |-> IF today >= now THEN today - Day ELSE today]

\* now.AddDate(-1, 0, 0): the instant GetLastCronTime starts its search from
Year == 365 * Day
maxIterations == 10000

\* the firings of a cron expression: offset + k * period, k an integer. The
\* epoch lies two years after a 29 February 09:00 and two years before the
\* next one.
CronPeriod(crontab) ==
    CASE crontab \in {"0 9 29 2 *", "0 18 29 2 *"} -> 4 * Year + Day
      [] crontab = "*/30 * * * *" -> SlotsPerHour \div 2
      [] OTHER -> Day
CronOffset(crontab) ==
    CASE crontab = "0 9 29 2 *" -> 2 * Year + (31 + 28) * Day + At(9)
      [] crontab = "0 18 29 2 *" -> 2 * Year + (31 + 28) * Day + At(18)
      [] crontab = "*/30 * * * *" -> 0
      [] crontab = "0 9 * * *" -> At(9)
      [] OTHER -> At(18)

\* cron.Schedule.Next: the first firing of the expression after instant t
CronNext(crontab, t) ==
    CronOffset(crontab)
      + ((t - CronOffset(crontab)) \div CronPeriod(crontab) + 1) * CronPeriod(crontab)

\* GetLastCronTime: the search runs from one year back over the firings
\* before now, at most maxIterations of them, and returns the last one it
\* saw; an error when the first firing it finds is not before now
GetLastCronTime(crontab, now) ==
    LET first == CronNext(crontab, now - Year)
        count == (now - 1 - first) \div CronPeriod(crontab) + 1
        walked == IF count > maxIterations THEN maxIterations ELSE count
    IN IF first >= now
       THEN [err |-> TRUE, time |-> 0]
       ELSE [err |-> FALSE, time |-> first + (walked - 1) * CronPeriod(crontab)]

\* ----------------------------------------------------------- calendar
\* The epoch is 1 January 00:00 of a year two years after a leap year, a
\* Thursday; the years next to it have 365 days as well.
DaysPerYear == 365
DaysPerWeek == 7
EpochWeekday == 4
MonthDays == <<31, 28, 31, 30, 31, 30, 31, 31, 30, 31, 30, 31>>
RECURSIVE DaysBefore(_)
DaysBefore(m) == IF m = 1 THEN 0 ELSE DaysBefore(m - 1) + MonthDays[m - 1]

\* time.Time accessors: Year, Month, Day, the clock within the day, Weekday
DayOf(t) == t \div Day
ClockOf(t) == t % Day
YearOf(t) == DayOf(t) \div DaysPerYear
MonthOf(t) ==
    CHOOSE m \in 1..12 :
       /\ DaysBefore(m) <= DayOf(t) % DaysPerYear
       /\ DayOf(t) % DaysPerYear < DaysBefore(m) + MonthDays[m]
DomOf(t) == (DayOf(t) % DaysPerYear) - DaysBefore(MonthOf(t)) + 1
Weekday(t) == (DayOf(t) + EpochWeekday) % DaysPerWeek

\* time.Date: months outside 1..12 and days outside the month are normalised
Date(y, m, d, clock) ==
    LET yy == y + (m - 1) \div 12
        mm == ((m - 1) % 12) + 1
    IN (yy * DaysPerYear + DaysBefore(mm) + d - 1) * Day + clock

\* Time.AddDate
AddDate(t, years, months, days) ==
    Date(YearOf(t) + years, MonthOf(t) + months, DomOf(t) + days, ClockOf(t))

\* GetLastWeeklyTime
GetLastWeeklyTime(t, dayOfWeek, now) ==
    IF ~ParseTime(t) \/ dayOfWeek \notin 0..6
    THEN [err |-> TRUE, time |-> 0]
    ELSE LET clock == At(TimeHour(t))
             diff == Weekday(now) - dayOfWeek
             back == IF diff < 0 THEN diff + DaysPerWeek ELSE diff
             today == Date(YearOf(now), MonthOf(now), DomOf(now), clock)
             daysBack == IF back = 0 /\ today > now THEN DaysPerWeek ELSE back
             targetDate == AddDate(now, 0, 0, 0 - daysBack)
         IN [err |-> FALSE,
             time |-> Date(YearOf(targetDate), MonthOf(targetDate),
                           DomOf(targetDate), clock)]

\* GetLastMonthlyTime: the two places where it falls back to the month before
\* now: that month's last day if it is shorter than dayOfMonth
monthBefore(dayOfMonth, now, clock) ==
    LET lastMonth == AddDate(now, 0, -1, 0)
        lastDay == Date(YearOf(lastMonth), MonthOf(lastMonth) + 1, 0, clock)
    IN IF dayOfMonth > DomOf(lastDay)
       THEN lastDay
       ELSE Date(YearOf(lastMonth), MonthOf(lastMonth), dayOfMonth, clock)

GetLastMonthlyTime(t, dayOfMonth, now) ==
    IF ~ParseTime(t)
    THEN [err |-> TRUE, time |-> 0]
    ELSE LET clock == At(TimeHour(t))
             first == Date(YearOf(now), MonthOf(now), dayOfMonth, clock)
             thisMonth == IF MonthOf(first) # MonthOf(now)
                          THEN monthBefore(dayOfMonth, now, clock)
                          ELSE first
         IN [err |-> FALSE,
             time |-> IF thisMonth > now
                      THEN monthBefore(dayOfMonth, now, clock)
                      ELSE thisMonth]

\* getLastExecutionTime
getLastExecutionTime(sch, action, now) ==
    CASE sch.type = "daily" ->
            IF action.time = "" THEN [err |-> TRUE, time |-> 0]
            ELSE GetLastDailyTime(action.time, now)
      [] sch.type = "cron" ->
            IF action.crontab = "" THEN [err |-> TRUE, time |-> 0]
            ELSE GetLastCronTime(action.crontab, now)
      [] OTHER -> [err |-> TRUE, time |-> 0]

\* determineExpectedState: <<expected state, corrective action>>
determineExpectedStateSkipOnErrorMut(sch, now) ==
    IF hasStart(sch) /\ ~hasStop(sch) THEN <<"running", "start">>
    ELSE IF hasStop(sch) /\ ~hasStart(sch) THEN <<"stopped", "stop">>
    ELSE IF hasStart(sch) /\ hasStop(sch)
    THEN LET lastStartTime == getLastExecutionTime(sch, sch.start, now)
             lastStopTime == getLastExecutionTime(sch, sch.stop, now)
         IN IF lastStartTime.err \/ lastStopTime.err THEN <<"", "">>
            ELSE IF lastStartTime.time > lastStopTime.time
            THEN <<"running", "start">>
            ELSE <<"stopped", "stop">>
    ELSE <<"", "">>
determineExpectedState(sch, now) ==
    IF hasStart(sch) /\ ~hasStop(sch) THEN <<"running", "start">>
    ELSE IF hasStop(sch) /\ ~hasStart(sch) THEN <<"stopped", "stop">>
    ELSE IF hasStart(sch) /\ hasStop(sch)
    THEN LET lastStartTime == getLastExecutionTime(sch, sch.start, now)
             lastStopTime == getLastExecutionTime(sch, sch.stop, now)
         IN IF lastStartTime.err THEN <<"running", "start">>
            ELSE IF lastStopTime.err THEN <<"stopped", "stop">>
            ELSE IF lastStartTime.time > lastStopTime.time
            THEN <<"running", "start">>
            ELSE <<"stopped", "stop">>
    ELSE <<"", "">>

\* runOnce, the loop body for the schedules from k on. g[k] is what GetState
\* returns for schedule k. Yields the job set and the corrections recorded.
RECURSIVE runOnceFromNoDeferMut(_, _, _, _, _, _, _)
runOnceFromNoDeferMut(js, corr, schedules, k, now, g, m) ==
    IF k > Len(schedules)
    THEN [jobs |-> js, corrections |-> corr]
    ELSE LET sch == schedules[k]
             expected == determineExpectedState(sch, now)
         IN IF g[k].err \/ expected[2] = "" \/ g[k].currentState = expected[1]
            THEN runOnceFromNoDeferMut(js, corr, schedules, k + 1, now, g, m)
            ELSE runOnceFromNoDeferMut(
                     AddOneTimeJob(js, <<sch.name, "validator", expected[2]>>,
                                   sch.resource, expected[2]),
                     corr \o Inc(m, <<sch.resource.type, expected[2]>>),
                     schedules, k + 1, now, g, m)

\* the loop body with the comparison inverted: a job for a resource that is in
\* its expected state
RECURSIVE runOnceFromInvertedMut(_, _, _, _, _, _, _)
runOnceFromInvertedMut(js, corr, schedules, k, now, g, m) ==
    IF k > Len(schedules)
    THEN [jobs |-> js, corrections |-> corr]
    ELSE LET sch == schedules[k]
             expected == determineExpectedState(sch, now)
         IN IF g[k].err \/ g[k].isTransitional \/ expected[2] = ""
               \/ g[k].currentState # expected[1]
            THEN runOnceFromInvertedMut(js, corr, schedules, k + 1, now, g, m)
            ELSE runOnceFromInvertedMut(
                     AddOneTimeJob(js, <<sch.name, "validator", expected[2]>>,
                                   sch.resource, expected[2]),
                     corr \o Inc(m, <<sch.resource.type, expected[2]>>),
                     schedules, k + 1, now, g, m)

\* the loop body that gives the pass up at the first failed state query
RECURSIVE runOnceFromReturnOnErrorMut(_, _, _, _, _, _, _)
runOnceFromReturnOnErrorMut(js, corr, schedules, k, now, g, m) ==
    IF k > Len(schedules)
    THEN [jobs |-> js, corrections |-> corr]
    ELSE LET sch == schedules[k]
             expected == determineExpectedState(sch, now)
         IN IF g[k].err
            THEN [jobs |-> js, corrections |-> corr]
            ELSE IF g[k].isTransitional \/ expected[2] = ""
                    \/ g[k].currentState = expected[1]
            THEN runOnceFromReturnOnErrorMut(js, corr, schedules, k + 1, now, g, m)
            ELSE runOnceFromReturnOnErrorMut(
                     AddOneTimeJob(js, <<sch.name, "validator", expected[2]>>,
                                   sch.resource, expected[2]),
                     corr \o Inc(m, <<sch.resource.type, expected[2]>>),
                     schedules, k + 1, now, g, m)

RECURSIVE runOnceFrom(_, _, _, _, _, _, _)
runOnceFrom(js, corr, schedules, k, now, g, m) ==
    IF k > Len(schedules)
    THEN [jobs |-> js, corrections |-> corr]
    ELSE LET sch == schedules[k]
             expected == determineExpectedState(sch, now)
         IN IF g[k].err \/ g[k].isTransitional \/ expected[2] = ""
               \/ g[k].currentState = expected[1]
            THEN runOnceFrom(js, corr, schedules, k + 1, now, g, m)
            ELSE runOnceFrom(
                     AddOneTimeJob(js, <<sch.name, "validator", expected[2]>>,
                                   sch.resource, expected[2]),
                     corr \o Inc(m, <<sch.resource.type, expected[2]>>),
                     schedules, k + 1, now, g, m)

runOnce(js, corr, schedules, now, g, m) ==
    runOnceFrom(js, corr, schedules, 1, now, g, m)

\* no last-firing computation made yet
NoCall == [rule |-> "none", time |-> "", day |-> 0, crontab |-> "", now |-> 0,
           err |-> FALSE, result |-> 0]

\* the validator goroutine at the select of its loop, no pass under way
\* before: the pass began before the cancellation; late: the last pass began
\* before the cancellation and added its jobs after the engine's shutdown
NoPass == [pc |-> "select", now |-> 0, list |-> <<>>, before |-> FALSE, late |-> FALSE]

\* the reloader goroutine at the select of its loop, no reload under way
NoReload == [pc |-> "select", schedules |-> <<>>]

\* no tick observed yet
NotSeen == [now |-> 0, reports |-> <<>>]

\* ------------------------------------------------------- core actions
\* Scheduler.Start: the engine starts firing
Start ==
    /\ engine = "new"
    /\ engine' = "running"
    /\ returned' = NoInvocation
    /\ UNCHANGED <<cfgVars, stepVars, calcVars, mu, ctxDone, atCancel, jobs, cfgSchedules,
                   execVars, state, tickVars, replaceVars, reloadVars>>

\* gocron.WithLimitConcurrentJobs(maxConcurrentJobs, LimitModeWait): a closure
\* starts only while fewer than the limit are executing
limitConcurrentJobsOffMut(es) == TRUE
limitConcurrentJobs(es) == Len(es) < MaxConcurrentJobs

\* the engine in LimitModeReschedule: a run that finds the limit reached is
\* skipped
JobFireRescheduleMut(j) ==
    /\ engine = "running"
    /\ j \in DOMAIN jobs
    /\ ~(jobs[j].oneshot /\ jobs[j].fired)
    /\ LET key == lockKey(jobs[j].resource, jobs[j].action)
           got == tryAcquire(locks, key)
       IN IF ~limitConcurrentJobs(execs)
          THEN /\ returned' = NoInvocation
               /\ UNCHANGED <<execs, locks>>
          ELSE IF got
          THEN /\ execs' = Append(execs, Invocation(jobs[j], TRUE))
               /\ locks' = insert(locks, key)
               /\ returned' = NoInvocation
          ELSE /\ returned' = Invocation(jobs[j], FALSE)
               /\ UNCHANGED <<execs, locks>>
    /\ jobs' = IF jobs[j].oneshot THEN [jobs EXCEPT ![j].fired = TRUE] ELSE jobs
    /\ UNCHANGED <<cfgVars, stepVars, calcVars, engineVars, cfgSchedules, state, tickVars,
                   replaceVars, reloadVars>>

\* an engine that goes on running jobs after its Shutdown has returned
JobFireAfterShutdownMut(j) ==
    /\ engine \in {"running", "stopped"}
    /\ j \in DOMAIN jobs
    /\ ~(jobs[j].oneshot /\ jobs[j].fired)
    /\ limitConcurrentJobs(execs)
    /\ LET key == lockKey(jobs[j].resource, jobs[j].action)
           got == tryAcquire(locks, key)
       IN IF got
          THEN /\ execs' = Append(execs, Invocation(jobs[j], TRUE))
               /\ locks' = insert(locks, key)
               /\ returned' = NoInvocation
          ELSE /\ returned' = Invocation(jobs[j], FALSE)
               /\ UNCHANGED <<execs, locks>>
    /\ jobs' = IF jobs[j].oneshot THEN [jobs EXCEPT ![j].fired = TRUE] ELSE jobs
    /\ UNCHANGED <<cfgVars, stepVars, calcVars, engineVars, cfgSchedules, state, tickVars,
                   replaceVars, reloadVars>>

\* the engine runs a ready job's closure when a slot of the cap is free
JobFire(j) ==
    /\ engine = "running"
    /\ j \in DOMAIN jobs
    /\ ~(jobs[j].oneshot /\ jobs[j].fired)
    /\ limitConcurrentJobs(execs)
    /\ LET key == lockKey(jobs[j].resource, jobs[j].action)
           got == tryAcquire(locks, key)
       IN IF got
          THEN /\ execs' = Append(execs, Invocation(jobs[j], TRUE))
               /\ locks' = insert(locks, key)
               /\ returned' = NoInvocation
          ELSE /\ returned' = Invocation(jobs[j], FALSE)
               /\ UNCHANGED <<execs, locks>>
    /\ jobs' = IF jobs[j].oneshot THEN [jobs EXCEPT ![j].fired = TRUE] ELSE jobs
    /\ UNCHANGED <<cfgVars, stepVars, calcVars, engineVars, cfgSchedules, state, tickVars,
                   replaceVars, reloadVars>>

\* what GetState returns to a pass for each schedule; fails[k] tells whether
\* the query for schedule k fails
Reports(fails) ==
    [k \in DOMAIN cfgSchedules |->
       CHOOSE x \in GetState(state[cfgSchedules[k].resource]) : x.err = fails[k]]

\* one pass of runOnce at the instant now
runOncePass(now, fails) ==
    /\ ~ctxDone
    /\ mu = "free"
    /\ LET r == runOnce(jobs, corrections, cfgSchedules, now, Reports(fails), metrics)
       IN /\ jobs' = r.jobs
          /\ corrections' = r.corrections
    /\ ticks' = ticks + 1
    /\ returned' = NoInvocation
    /\ UNCHANGED <<cfgVars, stepVars, calcVars, engineVars, cfgSchedules, execVars, state,
                   replaceVars, reloadVars>>

\* Validator.Start's ticker fires: runOnce
ValidatorTick ==
    /\ ticks < MaxTicks
    /\ \E now \in Nows :
       \E fails \in [DOMAIN cfgSchedules -> BOOLEAN] : runOncePass(now, fails)
    /\ seen' = seen

\* the ticker of a validator that runs for MaxValidatorTicks periods, with
\* what each pass read kept in seen
ValidatorTicker ==
    /\ ticks < MaxValidatorTicks
    /\ \E now \in Nows :
       \E fails \in [DOMAIN cfgSchedules -> BOOLEAN] :
          /\ runOncePass(now, fails)
          /\ seen' = [now |-> now, reports |-> Reports(fails)]

\* reloadSchedules after a successful LoadSchedules: ReplaceSchedules, then
\* the new list is handed to the validator
SpecLists == { <<SchB>>, <<SchA2, SchK>>, <<SchB, SchC>>, <<SchA, SchB>> }

\* reloadSchedules that replaces the jobs and leaves the validator its old list
ReloadKeepListMut(schedules) ==
    /\ mu = "free"
    /\ engine \in {"new", "running"}
    /\ replaces < MaxReplace
    /\ LET r == ReplaceSchedules(jobs, schedules)
       IN /\ jobs' = r.jobs
          /\ lastReplace' = IF r.err THEN "err" ELSE "ok"
          /\ cfgSchedules' = cfgSchedules
          /\ execs' = afterRemove(execs, r.jobs)
    /\ replaces' = replaces + 1
    /\ returned' = NoInvocation
    /\ UNCHANGED <<cfgVars, stepVars, calcVars, engineVars, locks, state, tickVars, reloadVars>>

Reload(schedules) ==
    /\ mu = "free"
    /\ engine \in {"new", "running"}
    /\ replaces < MaxReplace
    /\ LET r == ReplaceSchedules(jobs, schedules)
       IN /\ jobs' = r.jobs
          /\ lastReplace' = IF r.err THEN "err" ELSE "ok"
          /\ cfgSchedules' = IF r.err THEN cfgSchedules ELSE schedules
          /\ execs' = afterRemove(execs, r.jobs)
    /\ replaces' = replaces + 1
    /\ returned' = NoInvocation
    /\ UNCHANGED <<cfgVars, stepVars, calcVars, engineVars, locks, state, tickVars, reloadVars>>

\* Scheduler.AddJob by a caller of the package, with a closure Make built for
\* an action other than start and stop
AddJob ==
    /\ mu = "free"
    /\ engine \in {"new", "running"}
    /\ \A j \in DOMAIN jobs : jobs[j].name # <<"x", "restart">>
    /\ jobs' = addJobUnlocked(jobs, <<"x", "restart">>, VM1, "restart")
    /\ returned' = NoInvocation
    /\ UNCHANGED <<cfgVars, stepVars, calcVars, engineVars, cfgSchedules, execVars, state, tickVars,
                   replaceVars, reloadVars>>

\* the closure's context is context.WithTimeout(context.Background(), ...):
\* what a cancellation of the top-level context does to the executing closures
afterCancelAbortMut(es) == <<>>
afterCancel(es) == es

\* the top-level context is cancelled
CtxCancel ==
    /\ engine = "running"
    /\ ~ctxDone
    /\ ctxDone' = TRUE
    /\ execs' = afterCancel(execs)
    /\ atCancel' = { execs[i] : i \in { x \in DOMAIN execs : execs[x].pc = "inop" } }
    /\ returned' = NoInvocation
    /\ UNCHANGED <<cfgVars, stepVars, calcVars, engine, mu, jobs, cfgSchedules, locks, state,
                   tickVars, replaceVars, reloadVars>>

\* Scheduler.Start after <-ctx.Done(): takes mu and calls Shutdown
ShutdownBegin ==
    /\ ctxDone
    /\ engine = "running"
    /\ mu = "free"
    /\ mu' = "Start"
    /\ engine' = "stopping"
    /\ returned' = NoInvocation
    /\ UNCHANGED <<cfgVars, stepVars, calcVars, ctxDone, atCancel, jobs, cfgSchedules,
                   execVars, state, tickVars, replaceVars, reloadVars>>

\* Shutdown returns: the running closures have returned, or its wait for them
\* timed out and the error is logged
ShutdownEnd ==
    /\ engine = "stopping"
    /\ engine' = "stopped"
    /\ mu' = "free"
    /\ returned' = NoInvocation
    /\ UNCHANGED <<cfgVars, stepVars, calcVars, ctxDone, atCancel, jobs, cfgSchedules,
                   execVars, state, tickVars, replaceVars, reloadVars>>

\* Scheduler.Start has returned, Run returns and the process ends, and with
\* it whatever closure is still executing
Exit ==
    /\ engine = "stopped"
    /\ engine' = "exited"
    /\ execs' = <<>>
    /\ locks' = {}
    /\ returned' = NoInvocation
    /\ UNCHANGED <<cfgVars, stepVars, calcVars, mu, ctxDone, atCancel, jobs, cfgSchedules,
                   state, tickVars, replaceVars, reloadVars>>

\* the positions of the engine's job list: the managed jobs of two schedules
\* and the validator's one-shot jobs
JobIds == 1..(2 * MaxTicks + 5)

\* --------------------------------------------------- core specification
InitLists == { <<SchA, SchB>>, <<SchA, SchK>> }

InitReloadIdle ==
    /\ dir = <<NoFile, NoFile, NoFile>>
    /\ dirReadable = TRUE
    /\ watching = FALSE
    /\ lastSig = [zero |-> TRUE, stream |-> <<>>]
    /\ hasLastSig = FALSE
    /\ reloadCalls = 0
    /\ lastReload = "none"
    /\ lastTick = "none"
    /\ callsSinceChange = 0

Init ==
    /\ dryRun \in BOOLEAN
    /\ metrics \in BOOLEAN
    /\ engine = "new"
    /\ mu = "free"
    /\ ctxDone = FALSE
    /\ atCancel = {}
    /\ pass = NoPass
    /\ reloading = NoReload
    /\ cfgSchedules \in InitLists
    /\ jobs = RegisterSchedules(<<>>, cfgSchedules).jobs
    /\ locks = {}
    /\ execs = <<>>
    /\ returned = NoInvocation
    /\ state = [r \in Resources |-> "stopped"]
    /\ corrections = <<>>
    /\ ticks = 0
    /\ seen = NotSeen
    /\ lastFire = NoCall
    /\ replaces = 0
    /\ lastReplace = "none"
    /\ InitReloadIdle

Next ==
    \/ Start
    \/ \E j \in 1..(2 * MaxTicks + 5) : JobFire(j)
    \/ \E i \in 1..MaxConcurrentJobs : MakeRun(i)
    \/ \E i \in 1..MaxConcurrentJobs : MakeReturn(i)
    \/ \E r \in Resources : EnvChange(r)
    \/ ValidatorTick
    \/ AddJob

Spec == Init /\ [][Next]_vars

\* ------------------------------------------- hot-swap specification
\* the scheduler with reloads arriving while jobs fire and closures run
InitReplace ==
    /\ dryRun = FALSE
    /\ metrics = TRUE
    /\ engine = "new"
    /\ mu = "free"
    /\ ctxDone = FALSE
    /\ atCancel = {}
    /\ pass = NoPass
    /\ reloading = NoReload
    /\ cfgSchedules \in InitLists
    /\ jobs = RegisterSchedules(<<>>, cfgSchedules).jobs
    /\ locks = {}
    /\ execs = <<>>
    /\ returned = NoInvocation
    /\ state = [r \in Resources |-> "stopped"]
    /\ corrections = <<>>
    /\ ticks = 0
    /\ seen = NotSeen
    /\ lastFire = NoCall
    /\ replaces = 0
    /\ lastReplace = "none"
    /\ InitReloadIdle

NextReplace ==
    \/ Start
    \/ \E j \in 1..(2 * MaxTicks + 5) : JobFire(j)
    \/ \E i \in 1..MaxConcurrentJobs : MakeRun(i)
    \/ \E i \in 1..MaxConcurrentJobs : MakeReturn(i)
    \/ ValidatorTick
    \/ \E schedules \in SpecLists : Reload(schedules)

SpecReplace == InitReplace /\ [][NextReplace]_vars

\* reloads about one-shot jobs on an engine that is kept running: Run calls
\* Scheduler.Start, the engine starts every queued run (LimitModeWait) and a
\* started closure goes on to its return
OnceLists == { <<SchB>>, <<SchB, SchC>> }

InitOnce ==
    /\ dryRun = FALSE
    /\ metrics = FALSE
    /\ engine = "new"
    /\ mu = "free"
    /\ ctxDone = FALSE
    /\ atCancel = {}
    /\ pass = NoPass
    /\ reloading = NoReload
    /\ cfgSchedules = <<SchA, SchK>>
    /\ jobs = RegisterSchedules(<<>>, cfgSchedules).jobs
    /\ locks = {}
    /\ execs = <<>>
    /\ returned = NoInvocation
    /\ state = [r \in Resources |-> "stopped"]
    /\ corrections = <<>>
    /\ ticks = 0
    /\ seen = NotSeen
    /\ lastFire = NoCall
    /\ replaces = 0
    /\ lastReplace = "none"
    /\ InitReloadIdle

NextOnce ==
    \/ Start
    \/ \E j \in JobIds : JobFire(j)
    \/ \E i \in 1..MaxConcurrentJobs : MakeRun(i)
    \/ \E i \in 1..MaxConcurrentJobs : MakeReturn(i)
    \/ ValidatorTick
    \/ \E schedules \in OnceLists : Reload(schedules)

SpecOnce ==
    /\ InitOnce
    /\ [][NextOnce]_vars
    /\ WF_vars(Start)
    /\ SF_vars(\E j \in JobIds : JobFire(j) /\ jobs[j].oneshot)
    /\ WF_vars(\E i \in 1..MaxConcurrentJobs : MakeRun(i))
    /\ WF_vars(\E i \in 1..MaxConcurrentJobs : MakeReturn(i))

\* ------------------------------------------- validator specification
\* the validator walking cfg.Schedules tick after tick while the cloud side
\* changes under it
ValidatorLists ==
    { <<SchA>>, <<SchA2>>, <<SchB>>, <<SchA, SchK>>, <<SchR, SchS>>, <<SchT>>,
      <<SchF>>, <<SchRR>> }

InitValidator ==
    /\ dryRun = FALSE
    /\ metrics \in BOOLEAN
    /\ engine = "new"
    /\ mu = "free"
    /\ ctxDone = FALSE
    /\ atCancel = {}
    /\ pass = NoPass
    /\ reloading = NoReload
    /\ cfgSchedules \in ValidatorLists
    /\ jobs = RegisterSchedules(<<>>, cfgSchedules).jobs
    /\ locks = {}
    /\ execs = <<>>
    /\ returned = NoInvocation
    /\ state = [r \in Resources |-> "stopped"]
    /\ corrections = <<>>
    /\ ticks = 0
    /\ seen = NotSeen
    /\ lastFire = NoCall
    /\ replaces = 0
    /\ lastReplace = "none"
    /\ InitReloadIdle

NextValidator ==
    \/ Start
    \/ \E r \in Resources : EnvChange(r)
    \/ ValidatorTicker

SpecValidator == InitValidator /\ [][NextValidator]_vars

\* ------------------------------------------- shutdown specification
\* the scheduler with its jobs firing and the validator ticking until the
\* top-level context is cancelled, Scheduler.Start shuts the engine down and
\* the process ends
InitShutdown ==
    /\ dryRun = FALSE
    /\ metrics = TRUE
    /\ engine = "new"
    /\ mu = "free"
    /\ ctxDone = FALSE
    /\ atCancel = {}
    /\ pass = NoPass
    /\ reloading = NoReload
    /\ cfgSchedules \in InitLists
    /\ jobs = RegisterSchedules(<<>>, cfgSchedules).jobs
    /\ locks = {}
    /\ execs = <<>>
    /\ returned = NoInvocation
    /\ state = [r \in Resources |-> "stopped"]
    /\ corrections = <<>>
    /\ ticks = 0
    /\ seen = NotSeen
    /\ lastFire = NoCall
    /\ replaces = 0
    /\ lastReplace = "none"
    /\ InitReloadIdle

NextShutdown ==
    \/ Start
    \/ \E j \in JobIds : JobFire(j)
    \/ \E i \in 1..MaxConcurrentJobs : MakeRun(i)
    \/ \E i \in 1..MaxConcurrentJobs : MakeReturn(i)
    \/ ValidatorTick
    \/ CtxCancel
    \/ ShutdownBegin
    \/ ShutdownEnd
    \/ Exit

SpecShutdown == InitShutdown /\ [][NextShutdown]_vars

\* ------------------------------------------ goroutine specification
\* The validator goroutine, the reloader goroutine and Scheduler.Start step by
\* step: a pass reads cfg.Schedules when it starts and makes its AddOneTimeJob
\* calls later; a reload callback removes the managed jobs, registers the new
\* ones and then stores the new list in cfg.Schedules.

\* what the states that GetState reports for the schedules of list L; fails[k]
\* tells whether the query for schedule k fails
ReportsOf(L, fails) ==
    [k \in DOMAIN L |-> CHOOSE x \in GetState(state[L[k].resource]) : x.err = fails[k]]

Take(L, n) == SubSeq(L, 1, n)

\* what the range statement of runOnce gets when it evaluates v.cfg.Schedules:
\* the list stored there, and, while reloadSchedules is storing another one
\* without any lock, either list or a slice header made of the words of both
ReadSchedules ==
    IF reloading.pc = "writing"
    THEN LET old == cfgSchedules
             new == reloading.schedules
             n == IF Len(old) < Len(new) THEN Len(old) ELSE Len(new)
         IN {old, new, Take(old, n), Take(new, n)}
    ELSE {cfgSchedules}

\* a loop that goes on after its select has taken ctx.Done()
PassBeginNoReturnMut ==
    /\ pass.pc \in {"select", "stopped"}
    /\ engine # "new"
    /\ ticks < MaxTicks
    /\ \E now \in Nows : \E L \in ReadSchedules :
          pass' = [pc |-> "walking", now |-> now, list |-> L,
                   before |-> ~ctxDone, late |-> FALSE]
    /\ ticks' = ticks + 1
    /\ returned' = NoInvocation
    /\ UNCHANGED <<cfgVars, calcVars, engineVars, jobs, cfgSchedules, execVars, state,
                   corrections, seen, replaceVars, reloadVars, reloading>>

\* the select of Validator.Start takes ticker.C: runOnce reads the clock and
\* the list; when ctx.Done() is ready as well the select may take either
PassBegin ==
    /\ pass.pc = "select"
    /\ engine # "new"
    /\ ticks < MaxTicks
    /\ \E now \in Nows : \E L \in ReadSchedules :
          pass' = [pc |-> "walking", now |-> now, list |-> L,
                   before |-> ~ctxDone, late |-> FALSE]
    /\ ticks' = ticks + 1
    /\ returned' = NoInvocation
    /\ UNCHANGED <<cfgVars, calcVars, engineVars, jobs, cfgSchedules, execVars, state,
                   corrections, seen, replaceVars, reloadVars, reloading>>

\* a slice header with the pointer of the shorter list and the length of the
\* longer one: the range statement reads past the end of the array
PassFault ==
    /\ pass.pc = "select"
    /\ engine # "new"
    /\ ticks < MaxTicks
    /\ reloading.pc = "writing"
    /\ Len(cfgSchedules) # Len(reloading.schedules)
    /\ pass' = [NoPass EXCEPT !.pc = "fault"]
    /\ ticks' = ticks + 1
    /\ returned' = NoInvocation
    /\ UNCHANGED <<cfgVars, calcVars, engineVars, jobs, cfgSchedules, execVars, state,
                   corrections, seen, replaceVars, reloadVars, reloading>>

\* the rest of the pass: the state queries and the AddOneTimeJob calls, which
\* take the scheduler mutex; on an engine that was shut down NewJob either
\* stores the job or returns an error
PassEnd ==
    /\ pass.pc = "walking"
    /\ \E fails \in [DOMAIN pass.list -> BOOLEAN] : \E ok \in BOOLEAN :
          LET r == runOnce(jobs, corrections, pass.list, pass.now,
                           ReportsOf(pass.list, fails), metrics)
          IN /\ r.jobs # jobs => mu = "free"
             /\ ~ok => (engine = "stopped" /\ r.jobs # jobs)
             /\ jobs' = IF ok THEN r.jobs ELSE jobs
             /\ corrections' = IF ok THEN r.corrections ELSE corrections
             /\ pass' = [NoPass EXCEPT !.late = /\ pass.before
                                                /\ engine = "stopped"
                                                /\ ok /\ r.jobs # jobs]
    /\ returned' = NoInvocation
    /\ UNCHANGED <<cfgVars, calcVars, engineVars, cfgSchedules, execVars, state,
                   ticks, seen, replaceVars, reloadVars, reloading>>

\* the select of Validator.Start takes ctx.Done(): the goroutine returns
ValidatorStop ==
    /\ pass.pc = "select"
    /\ ctxDone
    /\ pass' = [pass EXCEPT !.pc = "stopped"]
    /\ returned' = NoInvocation
    /\ UNCHANGED <<cfgVars, calcVars, engineVars, jobs, cfgSchedules, execVars, state,
                   tickVars, replaceVars, reloadVars, reloading>>

\* the select of Reloader.Start takes ticker.C, the directory has changed and
\* LoadSchedules succeeds: ReplaceSchedules takes the mutex and removes the
\* managed jobs
ReplaceBegin(schedules) ==
    /\ reloading.pc = "select"
    /\ mu = "free"
    /\ replaces < MaxStepReplace
    /\ mu' = "ReplaceSchedules"
    /\ jobs' = RemoveByTags(jobs)
    /\ execs' = afterRemove(execs, RemoveByTags(jobs))
    /\ reloading' = [pc |-> "replacing", schedules |-> schedules]
    /\ replaces' = replaces + 1
    /\ returned' = NoInvocation
    /\ UNCHANGED <<cfgVars, calcVars, engine, ctxDone, atCancel, cfgSchedules, locks,
                   state, tickVars, lastReplace, reloadVars, pass>>

\* ReplaceSchedules registers the new schedules and returns, releasing the
\* mutex; on an error reloadSchedules returns without storing the list
ReplaceEnd ==
    /\ reloading.pc = "replacing"
    /\ LET r == registerFrom(jobs, reloading.schedules, 1)
       IN /\ jobs' = r.jobs
          /\ lastReplace' = IF r.err THEN "err" ELSE "ok"
          /\ reloading' = IF r.err THEN NoReload
                          ELSE [reloading EXCEPT !.pc = "replaced"]
    /\ mu' = "free"
    /\ returned' = NoInvocation
    /\ UNCHANGED <<cfgVars, calcVars, engine, ctxDone, atCancel, cfgSchedules, execVars,
                   state, tickVars, replaces, reloadVars, pass>>

\* cfg.Schedules = append(nil, schedules...): the store of the slice header
\* begins
ListWriteBegin ==
    /\ reloading.pc = "replaced"
    /\ reloading' = [reloading EXCEPT !.pc = "writing"]
    /\ returned' = NoInvocation
    /\ UNCHANGED <<cfgVars, calcVars, engineVars, jobs, cfgSchedules, execVars, state,
                   tickVars, replaceVars, reloadVars, pass>>

\* the store is complete and the callback returns
ListWriteEnd ==
    /\ reloading.pc = "writing"
    /\ cfgSchedules' = reloading.schedules
    /\ reloading' = NoReload
    /\ returned' = NoInvocation
    /\ UNCHANGED <<cfgVars, calcVars, engineVars, jobs, execVars, state,
                   tickVars, replaceVars, reloadVars, pass>>

\* the select of Reloader.Start takes ctx.Done(): Start returns
ReloaderStop ==
    /\ reloading.pc = "select"
    /\ ctxDone
    /\ reloading' = [pc |-> "stopped", schedules |-> <<>>]
    /\ returned' = NoInvocation
    /\ UNCHANGED <<cfgVars, calcVars, engineVars, jobs, cfgSchedules, execVars, state,
                   tickVars, replaceVars, reloadVars, pass>>

StepLists == { <<SchB>>, <<SchB, SchC>> }

InitSteps ==
    /\ dryRun = FALSE
    /\ metrics = TRUE
    /\ engine = "new"
    /\ mu = "free"
    /\ ctxDone = FALSE
    /\ atCancel = {}
    /\ pass = NoPass
    /\ reloading = NoReload
    /\ cfgSchedules = <<SchA, SchK>>
    /\ jobs = RegisterSchedules(<<>>, cfgSchedules).jobs
    /\ locks = {}
    /\ execs = <<>>
    /\ returned = NoInvocation
    /\ state = [r \in Resources |-> "stopped"]
    /\ corrections = <<>>
    /\ ticks = 0
    /\ seen = NotSeen
    /\ lastFire = NoCall
    /\ replaces = 0
    /\ lastReplace = "none"
    /\ InitReloadIdle

NextSteps ==
    \/ Start
    \/ \E j \in JobIds : JobFire(j)
    \/ PassBegin
    \/ PassFault
    \/ PassEnd
    \/ ValidatorStop
    \/ \E schedules \in StepLists : ReplaceBegin(schedules)
    \/ ReplaceEnd
    \/ ListWriteBegin
    \/ ListWriteEnd
    \/ ReloaderStop
    \/ CtxCancel
    \/ ShutdownBegin
    \/ ShutdownEnd

SpecSteps == InitSteps /\ [][NextSteps]_vars

\* the goroutines keep running: a call that waits for the mutex gets it once
\* it is free, Shutdown returns, and a select at which ctx.Done() stays ready
\* takes it in the end
SpecStepsFair ==
    /\ SpecSteps
    /\ WF_vars(PassEnd)
    /\ WF_vars(ValidatorStop)
    /\ WF_vars(ReplaceEnd)
    /\ WF_vars(ListWriteBegin)
    /\ WF_vars(ListWriteEnd)
    /\ WF_vars(ReloaderStop)
    /\ WF_vars(ShutdownBegin)
    /\ WF_vars(ShutdownEnd)

\* ------------------------------------------- waiting specification
\* the running scheduler with its limit in LimitModeWait: a run that finds
\* the limit reached is queued by the engine and started when a slot frees,
\* so a job that is ready again and again is started (strong fairness of
\* JobFire); a started closure goes on to its return, the operator call being
\* bounded by its operation timeout (weak fairness of MakeRun, MakeReturn)
InitWait ==
    /\ dryRun = FALSE
    /\ metrics = FALSE
    /\ engine = "new"
    /\ mu = "free"
    /\ ctxDone = FALSE
    /\ atCancel = {}
    /\ pass = NoPass
    /\ reloading = NoReload
    /\ cfgSchedules \in InitLists
    /\ jobs = RegisterSchedules(<<>>, cfgSchedules).jobs
    /\ locks = {}
    /\ execs = <<>>
    /\ returned = NoInvocation
    /\ state = [r \in Resources |-> "stopped"]
    /\ corrections = <<>>
    /\ ticks = 0
    /\ seen = NotSeen
    /\ lastFire = NoCall
    /\ replaces = 0
    /\ lastReplace = "none"
    /\ InitReloadIdle

NextWait ==
    \/ Start
    \/ \E j \in JobIds : JobFire(j)
    \/ \E i \in 1..MaxConcurrentJobs : MakeRun(i)
    \/ \E i \in 1..MaxConcurrentJobs : MakeReturn(i)
    \/ ValidatorTick

SpecWait ==
    /\ InitWait
    /\ [][NextWait]_vars
    /\ \A j \in JobIds : SF_vars(JobFire(j))
    /\ \A i \in 1..MaxConcurrentJobs : WF_vars(MakeRun(i)) /\ WF_vars(MakeReturn(i))

\* ------------------------------------------- repair specification
\* the validator and its corrective jobs on resources that nothing else
\* touches: no managed job fires and the cloud side makes no change of its
\* own, the state queries of the validator and of the closures succeed and
\* so do the operator calls.
\* Run calls Scheduler.Start, the ticker keeps ticking, the engine starts the
\* queued runs and a started closure goes on to its return.
RepairLists == { <<SchA>>, <<SchA2>>, <<SchB>>, <<SchA, SchK>> }

RepairJobIds == 1..(2 * MaxRepairTicks + 4)

\* the engine starts the closure of a one-shot job
OneTimeJobFire(j) == JobFire(j) /\ jobs[j].oneshot

\* the closure of invocation i runs on, its state query succeeding
QuerySucceeds(i) ==
    /\ MakeRun(i)
    /\ ~returned'.g.err
    /\ \A x \in DOMAIN execs' : ~execs'[x].g.err

\* the operator call of invocation i returns without an error
OperatorSucceeds(i) == MakeReturn(i) /\ ~returned'.opErr

\* a validator tick all of whose state queries succeed
TickQueriesSucceed ==
    /\ ticks < MaxRepairTicks
    /\ \E now \in Nows :
          /\ runOncePass(now, [k \in DOMAIN cfgSchedules |-> FALSE])
          /\ seen' = [now |-> now,
                      reports |-> Reports([k \in DOMAIN cfgSchedules |-> FALSE])]

InitRepair ==
    /\ dryRun = FALSE
    /\ metrics = FALSE
    /\ engine = "new"
    /\ mu = "free"
    /\ ctxDone = FALSE
    /\ atCancel = {}
    /\ pass = NoPass
    /\ reloading = NoReload
    /\ cfgSchedules \in RepairLists
    /\ jobs = RegisterSchedules(<<>>, cfgSchedules).jobs
    /\ locks = {}
    /\ execs = <<>>
    /\ returned = NoInvocation
    /\ state \in [Resources -> {"running", "stopped"}]
    /\ corrections = <<>>
    /\ ticks = 0
    /\ seen = NotSeen
    /\ lastFire = NoCall
    /\ replaces = 0
    /\ lastReplace = "none"
    /\ InitReloadIdle

NextRepair ==
    \/ Start
    \/ \E j \in RepairJobIds : OneTimeJobFire(j)
    \/ \E i \in 1..MaxConcurrentJobs : QuerySucceeds(i)
    \/ \E i \in 1..MaxConcurrentJobs : OperatorSucceeds(i)
    \/ TickQueriesSucceed

SpecRepair ==
    /\ InitRepair
    /\ [][NextRepair]_vars
    /\ WF_vars(Start)
    /\ WF_vars(TickQueriesSucceed)
    /\ \A j \in RepairJobIds : SF_vars(OneTimeJobFire(j))
    /\ \A i \in 1..MaxConcurrentJobs :
          WF_vars(QuerySucceeds(i)) /\ WF_vars(OperatorSucceeds(i))

\* ------------------------------------------- last-firing specification
\* the last-firing computations of package schedule, each applied once to
\* arguments drawn from the valid times of day, weekdays and days of month
\* and the instants of a year
NowClocks == {At(9) - 1, At(9), At(9) + 1, At(18), At(20)}
NowInstants == { d * Day + c : d \in 0..MaxNowDay, c \in NowClocks }
DaysOfMonth == {1, 15, 28, 29, 30, 31}

Computed(rule, t, d, c, now, r) ==
    [rule |-> rule, time |-> t, day |-> d, crontab |-> c, now |-> now,
     err |-> r.err, result |-> r.time]

CallGetLastDailyTime ==
    /\ lastFire = NoCall
    /\ \E t \in ValidTimes : \E now \in NowInstants :
          lastFire' = Computed("daily", t, 0, "", now, GetLastDailyTime(t, now))
    /\ UNCHANGED <<cfgVars, stepVars, engineVars, jobs, cfgSchedules, execVars, returned,
                   state, tickVars, replaceVars, reloadVars>>

CallGetLastWeeklyTime ==
    /\ lastFire = NoCall
    /\ \E t \in ValidTimes : \E d \in 0..6 : \E now \in NowInstants :
          lastFire' = Computed("weekly", t, d, "", now, GetLastWeeklyTime(t, d, now))
    /\ UNCHANGED <<cfgVars, stepVars, engineVars, jobs, cfgSchedules, execVars, returned,
                   state, tickVars, replaceVars, reloadVars>>

CallGetLastMonthlyTime ==
    /\ lastFire = NoCall
    /\ \E t \in ValidTimes : \E d \in DaysOfMonth : \E now \in NowInstants :
          lastFire' = Computed("monthly", t, d, "", now, GetLastMonthlyTime(t, d, now))
    /\ UNCHANGED <<cfgVars, stepVars, engineVars, jobs, cfgSchedules, execVars, returned,
                   state, tickVars, replaceVars, reloadVars>>

Crontabs == {"0 9 * * *", "0 18 * * *", "*/30 * * * *", "0 9 29 2 *"}

CallGetLastCronTime ==
    /\ lastFire = NoCall
    /\ \E c \in Crontabs : \E now \in NowInstants :
          lastFire' = Computed("cron", "", 0, c, now, GetLastCronTime(c, now))
    /\ UNCHANGED <<cfgVars, stepVars, engineVars, jobs, cfgSchedules, execVars, returned,
                   state, tickVars, replaceVars, reloadVars>>

InitLastFire ==
    /\ dryRun = FALSE
    /\ metrics = FALSE
    /\ engine = "new"
    /\ mu = "free"
    /\ ctxDone = FALSE
    /\ atCancel = {}
    /\ pass = NoPass
    /\ reloading = NoReload
    /\ cfgSchedules = <<>>
    /\ jobs = <<>>
    /\ locks = {}
    /\ execs = <<>>
    /\ returned = NoInvocation
    /\ state = [r \in Resources |-> "stopped"]
    /\ corrections = <<>>
    /\ ticks = 0
    /\ seen = NotSeen
    /\ lastFire = NoCall
    /\ replaces = 0
    /\ lastReplace = "none"
    /\ InitReloadIdle

NextLastFire ==
    \/ CallGetLastDailyTime
    \/ CallGetLastWeeklyTime
    \/ CallGetLastMonthlyTime
    \/ CallGetLastCronTime

SpecLastFire == InitLastFire /\ [][NextLastFire]_vars

\* ------------------------------------------- the schedules directory
\* the entries the directory can hold, in the byte order of their names
FileA == [base |-> "a", ext |-> ".yaml"]
FileB == [base |-> "b", ext |-> ".YML"]
FileN == [base |-> "note", ext |-> ".txt"]
FileNames == <<FileA, FileB, FileN>>

\* the data each entry can hold
FileData == <<{"a", "a2", "c", "bad"}, {"b", "bc", "a2", "aa2"}, {"x"}>>

\* strings.ToLower on an extension
ToLower(ext) == IF ext = ".YML" THEN ".yml" ELSE ext

\* the filter of calcDirSignature and loadSchedules: a regular file whose
\* lower-cased extension is .yaml or .yml
isScheduleFileAnyMut(d, f) == d[f] # NoFile
isScheduleFile(d, f) ==
    d[f] # NoFile /\ ToLower(FileNames[f].ext) \in {".yaml", ".yml"}

\* the zero value of [sha256.Size]byte, which no sum equals
ZeroSig == [zero |-> TRUE, stream |-> <<>>]

\* calcDirSignature: the SHA-256 sum is stood for by the byte stream it is
\* taken over (name, 0, data, 0 for each schedule file in sorted order)
RECURSIVE sigFrom(_, _)
sigFrom(d, f) ==
    IF f > Len(FileNames) THEN <<>>
    ELSE IF isScheduleFile(d, f)
         THEN <<<<FileNames[f], 0, d[f], 0>>>> \o sigFrom(d, f + 1)
         ELSE sigFrom(d, f + 1)

calcDirSignature(d, readable) ==
    IF ~readable
    THEN [err |-> TRUE, sig |-> ZeroSig]
    ELSE [err |-> FALSE, sig |-> [zero |-> FALSE, stream |-> sigFrom(d, 1)]]

\* parseScheduleFile: the documents of a file, or a decoding / schema error
parseScheduleFile(data) ==
    CASE data = "a" -> [err |-> FALSE, schedules |-> <<SchA>>]
      [] data = "a2" -> [err |-> FALSE, schedules |-> <<SchA2>>]
      [] data = "aa2" -> [err |-> FALSE, schedules |-> <<SchA, SchA2>>]
      [] data = "b" -> [err |-> FALSE, schedules |-> <<SchB>>]
      [] data = "bc" -> [err |-> FALSE, schedules |-> <<SchB, SchC>>]
      [] data = "c" -> [err |-> FALSE, schedules |-> <<SchC>>]
      [] OTHER -> [err |-> TRUE, schedules |-> <<>>]

\* the duplicate-name check over the documents of one file
hasDuplicateNeverMut(schedules, fileSchedules) == FALSE
hasDuplicate(schedules, fileSchedules) ==
    \/ \E i \in DOMAIN fileSchedules : \E k \in DOMAIN schedules :
          fileSchedules[i].name = schedules[k].name
    \/ \E i \in DOMAIN fileSchedules : \E k \in DOMAIN fileSchedules :
          i # k /\ fileSchedules[i].name = fileSchedules[k].name

\* loadSchedules: the loop over the sorted entries from f on, then the checks
\* that something was parsed; kind tells which error was returned
loadError(kind) == [err |-> TRUE, kind |-> kind, schedules |-> <<>>]

RECURSIVE loadFrom(_, _, _, _)
loadFrom(d, f, schedules, parsedFiles) ==
    IF f > Len(FileNames)
    THEN IF parsedFiles = 0 \/ Len(schedules) = 0
         THEN loadError("empty")
         ELSE [err |-> FALSE, kind |-> "", schedules |-> schedules]
    ELSE IF ~isScheduleFile(d, f)
    THEN loadFrom(d, f + 1, schedules, parsedFiles)
    ELSE LET p == parseScheduleFile(d[f])
         IN IF p.err THEN loadError("parse")
            ELSE IF hasDuplicate(schedules, p.schedules)
            THEN loadError("duplicate")
            ELSE loadFrom(d, f + 1, schedules \o p.schedules, parsedFiles + 1)

loadSchedules(d, readable) ==
    IF ~readable THEN loadError("read")
    ELSE loadFrom(d, 1, <<>>, 0)

\* reloadSchedules, the onChange callback: load, replace, hand the list on
reloadSchedules(js, cfg, d, readable) ==
    LET l == loadSchedules(d, readable)
    IN IF l.err
       THEN [jobs |-> js, cfg |-> cfg, outcome |-> "load"]
       ELSE LET r == ReplaceSchedules(js, l.schedules)
            IN IF r.err
               THEN [jobs |-> r.jobs, cfg |-> cfg, outcome |-> "register"]
               ELSE [jobs |-> r.jobs, cfg |-> l.schedules, outcome |-> "ok"]

\* tick, lines 216-217: the baseline after the callback has returned
tickBaselineOnSuccessMut(last, sig, outcome) == IF outcome = "ok" THEN sig ELSE last
tickBaseline(last, sig, outcome) == sig

\* tick, line 205: the signature is the baseline, nothing to do
tickAlwaysMut(has, last, sig) == FALSE
tickUnchanged(has, last, sig) == has /\ sig = last

\* ------------------------------------------------------ reload actions
\* somebody writes, replaces or removes an entry of the directory
EditFile(f, data) ==
    /\ data # dir[f]
    /\ dir' = [dir EXCEPT ![f] = data]
    /\ callsSinceChange' =
          IF ToLower(FileNames[f].ext) \in {".yaml", ".yml"}
          THEN 0 ELSE callsSinceChange
    /\ lastTick' = "none"
    /\ UNCHANGED <<cfgVars, stepVars, calcVars, engineVars, jobs, cfgSchedules, execVars, returned,
                   state, tickVars, replaceVars, dirReadable, watching,
                   lastSig, hasLastSig, reloadCalls, lastReload>>

\* the directory stops or starts being readable
DirFault ==
    /\ dirReadable' = ~dirReadable
    /\ lastTick' = "none"
    /\ UNCHANGED <<cfgVars, stepVars, calcVars, engineVars, jobs, cfgSchedules, execVars, returned,
                   state, tickVars, replaceVars, dir, watching, lastSig,
                   hasLastSig, reloadCalls, lastReload, callsSinceChange>>

\* Reloader.Start up to its loop: the initial baseline
ReloaderStart ==
    /\ ~watching
    /\ watching' = TRUE
    /\ LET s == calcDirSignature(dir, dirReadable)
       IN IF s.err
          THEN UNCHANGED <<lastSig, hasLastSig>>
          ELSE lastSig' = s.sig /\ hasLastSig' = TRUE
    /\ lastTick' = "none"
    /\ UNCHANGED <<cfgVars, stepVars, calcVars, engineVars, jobs, cfgSchedules, execVars, returned,
                   state, tickVars, replaceVars, dir, dirReadable, reloadCalls,
                   lastReload, callsSinceChange>>

\* Reloader.tick, with the callback reloadSchedules
tick ==
    /\ watching
    /\ mu = "free"
    /\ engine \in {"new", "running"}
    /\ LET s == calcDirSignature(dir, dirReadable)
       IN IF s.err
          THEN /\ lastTick' = "unreadable"
               /\ UNCHANGED <<jobs, cfgSchedules, lastSig, hasLastSig,
                              reloadCalls, lastReload, callsSinceChange>>
          ELSE IF tickUnchanged(hasLastSig, lastSig, s.sig)
          THEN /\ lastTick' = "unchanged"
               /\ UNCHANGED <<jobs, cfgSchedules, lastSig, hasLastSig,
                              reloadCalls, lastReload, callsSinceChange>>
          ELSE /\ reloadCalls < MaxReloads
               /\ LET r == reloadSchedules(jobs, cfgSchedules, dir, dirReadable)
                  IN /\ jobs' = r.jobs
                     /\ cfgSchedules' = r.cfg
                     /\ lastReload' = r.outcome
                     /\ lastSig' = tickBaseline(lastSig, s.sig, r.outcome)
               /\ hasLastSig' = TRUE
               /\ reloadCalls' = reloadCalls + 1
               /\ callsSinceChange' = callsSinceChange + 1
               /\ lastTick' = "called"
    /\ UNCHANGED <<cfgVars, stepVars, calcVars, engineVars, execVars, returned, state, tickVars,
                   replaceVars, dir, dirReadable, watching>>

\* ------------------------------------------------ reload specification
InitDir == <<"a", "b", NoFile>>

InitReload ==
    /\ dryRun = FALSE
    /\ metrics = TRUE
    /\ engine = "new"
    /\ mu = "free"
    /\ ctxDone = FALSE
    /\ atCancel = {}
    /\ pass = NoPass
    /\ reloading = NoReload
    /\ dir = InitDir
    /\ dirReadable = TRUE
    /\ cfgSchedules = loadSchedules(dir, dirReadable).schedules
    /\ jobs = RegisterSchedules(<<>>, cfgSchedules).jobs
    /\ locks = {}
    /\ execs = <<>>
    /\ returned = NoInvocation
    /\ state = [r \in Resources |-> "stopped"]
    /\ corrections = <<>>
    /\ ticks = 0
    /\ seen = NotSeen
    /\ lastFire = NoCall
    /\ replaces = 0
    /\ lastReplace = "none"
    /\ watching = FALSE
    /\ lastSig = ZeroSig
    /\ hasLastSig = FALSE
    /\ reloadCalls = 0
    /\ lastReload = "none"
    /\ lastTick = "none"
    /\ callsSinceChange = 0

NextReload ==
    \/ Start
    \/ \E f \in DOMAIN FileNames : \E data \in FileData[f] \cup {NoFile} :
          EditFile(f, data)
    \/ DirFault
    \/ ReloaderStart
    \/ tick

SpecReload == InitReload /\ [][NextReload]_vars

\* ------------------------------------------------ claims: the executor
invKey(e) == lockKey(e.resource, e.action)
Holders(key) == { i \in DOMAIN execs : invKey(execs[i]) = key }
InFlightSkip(e) == e.pc = "done" /\ e.inflight

\* C1: when a job's closure is invoked while an earlier invocation of it is
\* inside the operator call, the new invocation returns at once as an
\* in-flight skip that has called neither the operator nor the state checker,
\* it is not kept to run later, and the operator call in progress stays the
\* only one made for the key.
C1_SecondInvocationSkipped ==
    [][ \A j \in DOMAIN jobs :
          (JobFire(j) /\ InOperator(lockKey(jobs[j].resource, jobs[j].action)) # {})
          => /\ InFlightSkip(returned')
             /\ returned'.name = jobs[j].name
             /\ returned'.ops = Inc(metrics, "skipped")
             /\ returned'.skips = Inc(metrics, "in_flight")
             /\ returned'.calls = 0
             /\ returned'.queries = 0
             /\ execs' = execs
             /\ \A i \in InOperator(lockKey(jobs[j].resource, jobs[j].action)) :
                   execs[i].calls = 1 ]_vars

\* C1 witness: an in-flight skip of the very closure that is inside the operator
C1_Witness ==
    /\ InFlightSkip(returned)
    /\ \E i \in DOMAIN execs :
         /\ execs[i].pc = "inop"
         /\ execs[i].name = returned.name
         /\ invKey(execs[i]) = invKey(returned)

\* C2: at most one operator call is in progress for a key at any time,
\* whichever closures (managed job, validator one-shot job) the calls come from.
C2_OneOperatorCallPerKey ==
    \A i \in DOMAIN execs : \A k \in DOMAIN execs :
        (execs[i].pc = "inop" /\ execs[k].pc = "inop"
           /\ invKey(execs[i]) = invKey(execs[k])) => i = k

\* C2 witness: a managed job's closure was refused while a validator one-shot
\* job's closure for the same key is inside the operator call
C2_Witness ==
    /\ InFlightSkip(returned)
    /\ returned.tag = managedScheduleTag
    /\ \E i \in DOMAIN execs :
         /\ execs[i].pc = "inop"
         /\ execs[i].tag = ""
         /\ invKey(execs[i]) = invKey(returned)

\* C3: every key in the in-flight set belongs to an invocation that has not
\* returned, and an invocation that held its key has given it up when it
\* returns, whatever its exit path.
C3_KeyReleasedOnReturn ==
    /\ \A key \in locks : Holders(key) # {}
    /\ (returned.pc = "done" /\ ~InFlightSkip(returned))
          => invKey(returned) \notin locks

\* C3 witness: the closure returned after an operator error, its key free
C3_Witness ==
    /\ returned.pc = "done"
    /\ returned.ops = <<"error">>
    /\ returned.calls = 1
    /\ invKey(returned) \notin locks

SawTransitional(e) == e.queries = 1 /\ ~e.g.err /\ e.g.isTransitional
SawTarget(e) ==
    /\ e.queries = 1
    /\ ~e.g.err
    /\ ~e.g.isTransitional
    /\ \/ (e.action = "start" /\ e.g.currentState = "running")
       \/ (e.action = "stop" /\ e.g.currentState = "stopped")
SawError(e) == e.queries = 1 /\ e.g.err

\* C11: without dryRun, an invocation whose state query succeeded and reported
\* a transitional state is never inside the operator call, and returns with no
\* operator call made and the skip recorded with reason transitional_state,
\* for start and for stop.
C11_TransitionalSkip ==
    ~dryRun =>
       /\ \A i \in DOMAIN execs : SawTransitional(execs[i]) => execs[i].pc # "inop"
       /\ (returned.pc = "done" /\ SawTransitional(returned))
            => /\ returned.calls = 0
               /\ returned.ops = Inc(metrics, "skipped")
               /\ returned.skips = Inc(metrics, "transitional_state")

\* C11 witness: a stop found the resource in transition and was skipped
C11_Witness ==
    /\ returned.pc = "done"
    /\ returned.action = "stop"
    /\ SawTransitional(returned)
    /\ returned.skips = <<"transitional_state">>

\* C12: without dryRun, an invocation whose state query succeeded and found
\* the resource already in the action's target state (running for start,
\* stopped for stop) is never inside the operator call, and returns with no
\* operator call made and the skip recorded with reason already_in_state.
C12_AlreadyInStateSkip ==
    ~dryRun =>
       /\ \A i \in DOMAIN execs : SawTarget(execs[i]) => execs[i].pc # "inop"
       /\ (returned.pc = "done" /\ SawTarget(returned))
            => /\ returned.calls = 0
               /\ returned.ops = Inc(metrics, "skipped")
               /\ returned.skips = Inc(metrics, "already_in_state")

\* C12 witness: a stop found the resource stopped and was skipped
C12_Witness ==
    /\ returned.pc = "done"
    /\ returned.action = "stop"
    /\ returned.g.currentState = "stopped"
    /\ SawTarget(returned)
    /\ returned.skips = <<"already_in_state">>

\* C13: without dryRun and with a valid action, an invocation whose state
\* query returned an error goes on to call the operator, once, and returns
\* with success or error recorded as the operator returned and no skip.
C13_FailOpen ==
    ~dryRun =>
       /\ \A i \in DOMAIN execs :
            SawError(execs[i])
              => (execs[i].pc = "inop" /\ execs[i].calls = 1
                    /\ execs[i].skips = <<>>)
       /\ (returned.pc = "done" /\ SawError(returned))
            => /\ returned.action \in {"start", "stop"}
               /\ returned.calls = 1
               /\ returned.skips = <<>>
               /\ returned.ops =
                     Inc(metrics, IF returned.opErr THEN "error" ELSE "success")

\* C13 witness: the query failed, the operator was called and succeeded
C13_Witness ==
    /\ returned.pc = "done"
    /\ SawError(returned)
    /\ ~returned.opErr
    /\ returned.ops = <<"success">>

C15_NoRetry ==
    /\ []( (returned.pc = "done" /\ returned.opErr)
             => /\ returned.calls = 1
                /\ returned.ops = Inc(metrics, "error")
                /\ returned.skips = <<>> )
    /\ [][ Len(execs') > Len(execs) => \E j \in DOMAIN jobs : JobFire(j) ]_vars

\* C15 witness: a validator one-shot job's operator call failed
C15_Witness ==
    /\ returned.pc = "done"
    /\ returned.opErr
    /\ returned.tag = ""
    /\ returned.ops = <<"error">>

\* ----------------------------------------------- claims: the validator
\* the jobs a step adds to the engine
NewJobs == { i \in DOMAIN jobs' : i > Len(jobs) }
\* those of them that are corrective one-shot jobs submitted for schedule sch
NewCorrective(sch) ==
    { i \in NewJobs : /\ jobs'[i].oneshot
                      /\ jobs'[i].tag = ""
                      /\ \E a \in {"start", "stop"} :
                            jobs'[i].name = <<sch.name, "validator", a>> }
\* the step is a validator tick; what it read for schedule k
Ticked == ticks' = ticks + 1
Report(k) == seen'.reports[k]
Stable(k, s) ==
    ~Report(k).err /\ ~Report(k).isTransitional /\ Report(k).currentState = s

\* C16: for a schedule with only the start action enabled, a validator tick
\* that gets the resource reported as stopped (not transitional) submits
\* exactly one corrective one-shot job, a start of that resource, and it does
\* so on every such tick; a tick that gets it reported as running submits none.
C16_StartOnlyDrift ==
    [][Ticked =>
         \A k \in DOMAIN cfgSchedules :
            LET sch == cfgSchedules[k]
            IN (hasStart(sch) /\ ~hasStop(sch)) =>
                 /\ Stable(k, "stopped") =>
                       /\ Cardinality(NewCorrective(sch)) = 1
                       /\ \A i \in NewCorrective(sch) :
                             /\ jobs'[i].name = <<sch.name, "validator", "start">>
                             /\ jobs'[i].action = "start"
                             /\ jobs'[i].resource = sch.resource
                 /\ Stable(k, "running") => NewCorrective(sch) = {}]_vars

\* three ticks over a start-only schedule: two found the resource stopped and
\* each left a corrective start, the resource is running now
C16_Witness ==
    /\ ticks = MaxValidatorTicks
    /\ seen.reports = <<[err |-> FALSE, currentState |-> "running",
                         isTransitional |-> FALSE]>>
    /\ cfgSchedules = <<SchA>>
    /\ state[VM1] = "running"
    /\ Cardinality({ i \in DOMAIN jobs :
                       jobs[i].name = <<"a", "validator", "start">> }) = 2

\* the firings of an action of a schedule: offset + k * period
FirePeriod(sch, action) ==
    IF sch.type = "daily" THEN Day ELSE CronPeriod(action.crontab)
FireOffset(sch, action) ==
    IF sch.type = "daily" THEN At(IF action.time = "09:00" THEN 9 ELSE 18)
    ELSE CronOffset(action.crontab)
\* the most recent firing of the action strictly before now
MostRecentFire(sch, action, now) ==
    now - 1 - ((now - 1 - FireOffset(sch, action)) % FirePeriod(sch, action))
\* both actions enabled and both last firings computed without an error
BothComputable(sch, now) ==
    /\ hasStart(sch) /\ hasStop(sch)
    /\ ~getLastExecutionTime(sch, sch.start, now).err
    /\ ~getLastExecutionTime(sch, sch.stop, now).err
\* what a tick that got the resource reported in state s submitted for sch:
\* nothing, or exactly one corrective job of the given action
Submitted(sch, action) ==
    /\ Cardinality(NewCorrective(sch)) = 1
    /\ \A i \in NewCorrective(sch) :
          /\ jobs'[i].name = <<sch.name, "validator", action>>
          /\ jobs'[i].action = action
          /\ jobs'[i].resource = sch.resource

\* C17: for a schedule with both actions enabled and both last firings
\* computable, determineExpectedState gives running (corrective start) when
\* the most recent start firing before now is later than the most recent stop
\* firing before now, and stopped (corrective stop) otherwise, and the tick
\* acts on that; with daily start 09:00 and stop 18:00 it gives stopped at
\* 20:00 and running at 10:00.
C17_LaterFiringWins ==
    [][Ticked =>
         \A k \in DOMAIN cfgSchedules :
            LET sch == cfgSchedules[k]
                now == seen'.now
                startLater == MostRecentFire(sch, sch.start, now)
                                > MostRecentFire(sch, sch.stop, now)
            IN BothComputable(sch, now) =>
                 /\ determineExpectedState(sch, now) =
                       IF startLater THEN <<"running", "start">>
                       ELSE <<"stopped", "stop">>
                 /\ (sch = SchB /\ now = Day + At(20)) =>
                       determineExpectedState(sch, now)[1] = "stopped"
                 /\ (sch = SchB /\ now = Day + At(10)) =>
                       determineExpectedState(sch, now)[1] = "running"
                 /\ Stable(k, "stopped") =>
                       IF startLater THEN Submitted(sch, "start")
                       ELSE NewCorrective(sch) = {}
                 /\ Stable(k, "running") =>
                       IF startLater THEN NewCorrective(sch) = {}
                       ELSE Submitted(sch, "stop")]_vars

\* C18: a validator tick that gets a schedule's resource reported as
\* transitional submits no corrective job for that schedule, whatever the
\* expected state is, and leaves the schedule in the list the next tick walks.
C18_TransitionalDeferred ==
    [][Ticked =>
         /\ \A k \in DOMAIN cfgSchedules :
               (~Report(k).err /\ Report(k).isTransitional) =>
                  NewCorrective(cfgSchedules[k]) = {}
         /\ cfgSchedules' = cfgSchedules]_vars

\* the last tick found the resource of the 09:00 / 18:00 schedule
\* provisioning, at 10:00 when it is expected to run, and so far no
\* corrective job exists
C18_Witness ==
    /\ cfgSchedules = <<SchB>>
    /\ ticks >= 1
    /\ seen.now = Day + At(10)
    /\ seen.reports = <<[err |-> FALSE, currentState |-> "provisioning",
                         isTransitional |-> TRUE]>>
    /\ \A i \in DOMAIN jobs : ~jobs[i].oneshot

\* the computation of the last firing of an action fails: the rule has no
\* firing within the year before now
LastFireFails(sch, action, now) ==
    sch.type = "cron" /\ MostRecentFire(sch, action, now) <= now - Year
\* what a tick does for schedule k when the expected state is s, reached by
\* the action a
Reconciled(k, s, a) ==
    LET sch == cfgSchedules[k]
        other == IF s = "running" THEN "stopped" ELSE "running"
    IN /\ determineExpectedState(sch, seen'.now) = <<s, a>>
       /\ Stable(k, other) => Submitted(sch, a)
       /\ Stable(k, s) => NewCorrective(sch) = {}

\* C19 as stated: with both actions enabled, a failing computation of the
\* last start firing gives running (start) and a failing computation of the
\* last stop firing gives stopped (stop), the schedule being reconciled in
\* both cases.
C19_Original ==
    [][Ticked =>
         \A k \in DOMAIN cfgSchedules :
            LET sch == cfgSchedules[k]
            IN (hasStart(sch) /\ hasStop(sch)) =>
                 /\ LastFireFails(sch, sch.start, seen'.now) =>
                       Reconciled(k, "running", "start")
                 /\ LastFireFails(sch, sch.stop, seen'.now) =>
                       Reconciled(k, "stopped", "stop")]_vars

\* C19, amended: with both actions enabled, a failing computation of the last
\* start firing gives running (start), whether or not the stop computation
\* fails too; a failing computation of the last stop firing gives stopped
\* (stop) when the start computation succeeded. In all these cases the
\* schedule is reconciled: a stable state other than the expected one gets
\* its corrective job.
C19_ErrorDefaults ==
    [][Ticked =>
         \A k \in DOMAIN cfgSchedules :
            LET sch == cfgSchedules[k]
            IN (hasStart(sch) /\ hasStop(sch)) =>
                 /\ LastFireFails(sch, sch.start, seen'.now) =>
                       Reconciled(k, "running", "start")
                 /\ (LastFireFails(sch, sch.stop, seen'.now)
                       /\ ~LastFireFails(sch, sch.start, seen'.now)) =>
                       Reconciled(k, "stopped", "stop")]_vars

\* the last tick found the resource of r (start on 29 February) stopped and
\* that of s (stop on 29 February) running, and submitted a start for the
\* one and a stop for the other
C19_Witness ==
    /\ cfgSchedules = <<SchR, SchS>>
    /\ ticks = 1
    /\ seen.reports[1].currentState = "stopped"
    /\ seen.reports[2].currentState = "running"
    /\ \E i, j \in DOMAIN jobs :
          /\ jobs[i].name = <<"r", "validator", "start">>
          /\ jobs[j].name = <<"s", "validator", "stop">>

\* the last tick got the resource of schedule k reported in a stable state
\* other than s, the state it expects of it
Drifted(k, s) ==
    /\ k \in DOMAIN cfgSchedules
    /\ k \in DOMAIN seen.reports
    /\ ~seen.reports[k].err
    /\ ~seen.reports[k].isTransitional
    /\ determineExpectedState(cfgSchedules[k], seen.now)[1] = s
    /\ seen.reports[k].currentState # s

\* the action that leads to the state s
ActionFor(s) == IF s = "running" THEN "start" ELSE "stop"

\* a corrective job of schedule k towards the state s has not fired yet
Pending(k, s) ==
    /\ k \in DOMAIN cfgSchedules
    /\ \E j \in DOMAIN jobs :
          /\ jobs[j].oneshot /\ ~jobs[j].fired
          /\ jobs[j].name = <<cfgSchedules[k].name, "validator", ActionFor(s)>>

\* C27: when a validator tick finds the resource of a reconciled schedule in a
\* stable state other than the expected one, the state queries and the
\* operator call succeed and nothing else changes the resource, then the
\* tick submits the corrective one-shot job, and once that job is there the
\* live state is eventually the expected state.
C27_DriftRepaired ==
    /\ [][\A k \in DOMAIN cfgSchedules : \A s \in {"running", "stopped"} :
            (Ticked /\ Drifted(k, s)') =>
               /\ Submitted(cfgSchedules[k], ActionFor(s))
               /\ Pending(k, s)']_vars
    /\ \A k \in 1..2 : \A s \in {"running", "stopped"} :
          (Drifted(k, s) /\ Pending(k, s)) ~>
             (k \in DOMAIN cfgSchedules /\ state[cfgSchedules[k].resource] = s)

\* the drift seen by the last tick is still there, its corrective job waiting
C27_Witness ==
    \E k \in DOMAIN cfgSchedules : \E s \in {"running", "stopped"} :
       /\ Drifted(k, s)
       /\ Pending(k, s)
       /\ state[cfgSchedules[k].resource] # s

\* the corrective job has run its operator call and the drift is gone
C27_WitnessRepaired ==
    \E k \in DOMAIN cfgSchedules : \E s \in {"running", "stopped"} :
       /\ Drifted(k, s)
       /\ state[cfgSchedules[k].resource] = s
       /\ returned.tag = "" /\ returned.calls = 1 /\ ~returned.opErr

\* ------------------------------------------------- claims: shutdown
Executing(e) == \E i \in DOMAIN execs : execs[i] = e

\* the operator call of invocation e returns in this step and its outcome is
\* recorded
OutcomeRecorded(e) ==
    \E ok \in BOOLEAN :
       /\ returned' = OperatorReturn(e, metrics, ok)
       /\ metrics => returned'.ops = e.ops \o <<IF ok THEN "success" ELSE "error">>

\* C28 as stated: an operator call that had started when the top-level context
\* was cancelled runs on until it returns, and its outcome is recorded: no
\* step ends it in another way.
C28_Original ==
    [][\A e \in atCancel :
          Executing(e) => (Executing(e)' \/ OutcomeRecorded(e))]_vars

\* C28 as amended: the cancellation itself ends no operator call that had
\* started, and such a call runs on while the scheduler is running or
\* shutting down; if it returns before the process ends its outcome is
\* recorded, and only the end of the process, after the engine's shutdown has
\* returned, ends it in another way.
C28_CallOutlivesCancel ==
    [][ /\ (ctxDone' /\ ~ctxDone) => execs' = execs
        /\ \A e \in atCancel :
             Executing(e) =>
                \/ Executing(e)'
                \/ OutcomeRecorded(e)
                \/ engine = "stopped" /\ engine' = "exited"]_vars

\* an operator call that was under way at the cancellation has just returned
\* while the engine is shutting down, and its outcome is recorded
C28_Witness ==
    /\ ctxDone
    /\ engine = "stopping"
    /\ \E e \in atCancel : \E ok \in BOOLEAN :
          /\ returned = OperatorReturn(e, metrics, ok)
          /\ metrics
          /\ returned.ops # <<>>

\* ------------------------------------------ claims: package schedule
\* the rule of call c fires at instant x; a day of month beyond the end of a
\* month stands for the last day of that month
Occurs(c, x) ==
    /\ ClockOf(x) = At(TimeHour(c.time))
    /\ CASE c.rule = "daily" -> TRUE
         [] c.rule = "weekly" -> Weekday(x) = c.day
         [] c.rule = "monthly" ->
               DomOf(x) = IF c.day > MonthDays[MonthOf(x)]
                          THEN MonthDays[MonthOf(x)] ELSE c.day
\* the call returned the last firing of its rule before now
LastBefore(c) ==
    /\ ~c.err
    /\ c.result < c.now
    /\ Occurs(c, c.result)
    /\ \A d \in DayOf(c.result)..DayOf(c.now) :
          LET x == d * Day + At(TimeHour(c.time))
          IN (c.result < x /\ x < c.now) => ~Occurs(c, x)

\* C21: for every valid time of day, weekday and day of month and every
\* instant now, GetLastDailyTime, GetLastWeeklyTime and GetLastMonthlyTime
\* return an instant strictly before now at which the rule fires, with no
\* firing of the rule strictly between that instant and now; also when now is
\* itself a firing and on the last days of a month.
C21_LastFireStrictlyBefore ==
    lastFire.rule \in {"daily", "weekly", "monthly"} => LastBefore(lastFire)

\* the latest firing of a cron expression strictly before now
CronMostRecent(crontab, now) ==
    now - 1 - ((now - 1 - CronOffset(crontab)) % CronPeriod(crontab))

\* C22: GetLastCronTime returns the latest firing of the expression strictly
\* before now, whatever the number of firings within the year before now,
\* and an error when the expression has no firing within that year.
C22_CronLastFire ==
    lastFire.rule = "cron" =>
       LET latest == CronMostRecent(lastFire.crontab, lastFire.now)
       IN IF latest > lastFire.now - Year
          THEN ~lastFire.err /\ lastFire.result = latest
          ELSE lastFire.err

\* C23: GetLastMonthlyTime with day of month 31 and now in February returns
\* no error and no date in March, and once the last day of February has
\* reached the configured time of day it returns that instant.
C23_ShortMonthClamp ==
    (lastFire.rule = "monthly" /\ lastFire.day = 31 /\ MonthOf(lastFire.now) = 2) =>
       LET lastOfFebruary == Date(YearOf(lastFire.now), 2, MonthDays[2],
                                  At(TimeHour(lastFire.time)))
       IN /\ ~lastFire.err
          /\ MonthOf(lastFire.result) # 3
          /\ lastOfFebruary < lastFire.now => lastFire.result = lastOfFebruary

\* ----------------------------------------------- claims: the scheduler
\* C24: in every reachable state at most MaxConcurrentJobs job closures,
\* those of managed jobs and of one-shot jobs together, are executing.
C24_ConcurrencyCap ==
    Len(execs) <= MaxConcurrentJobs

\* job j is due: the engine runs and j has a run to make
Ready(j) ==
    /\ engine = "running"
    /\ j \in DOMAIN jobs
    /\ ~(jobs[j].oneshot /\ jobs[j].fired)

\* the closure of job j has been started: an invocation of it is executing or
\* has just returned
Started(j) ==
    /\ j \in DOMAIN jobs
    /\ \/ returned.name = jobs[j].name
       \/ \E i \in DOMAIN execs : execs[i].name = jobs[j].name

\* C25: a job that is ready to fire while the limit is reached is not dropped:
\* as closures finish and the scheduler keeps running, its closure is
\* eventually started.
C25_WaitingJobRuns ==
    \A j \in JobIds :
       (Ready(j) /\ ~Started(j) /\ ~limitConcurrentJobs(execs)) ~> Started(j)

\* a one-shot job waits: it has not fired and the limit is reached by closures
\* of other jobs
C25_Witness ==
    /\ Len(execs) = MaxConcurrentJobs
    /\ \E j \in DOMAIN jobs : Ready(j) /\ jobs[j].oneshot /\ ~Started(j)

\* the waiting one-shot job has been started and the limit is reached again
C25_WitnessStarted ==
    /\ Len(execs) = MaxConcurrentJobs
    /\ \E j \in DOMAIN jobs :
          jobs[j].oneshot /\ jobs[j].fired /\ Started(j)

\* the cap is reached by a managed closure and a validator one-shot closure
\* together, while a further job is ready to fire
C24_Witness ==
    /\ Len(execs) = MaxConcurrentJobs
    /\ \E i, k \in DOMAIN execs :
          execs[i].tag = managedScheduleTag /\ execs[k].tag = ""
    /\ engine = "running"
    /\ \E j \in DOMAIN jobs : ~(jobs[j].oneshot /\ jobs[j].fired)

Managed(js) == SelectSeq(js, LAMBDA j : j.tag = managedScheduleTag)
Untagged(js) == SelectSeq(js, LAMBDA j : j.tag = "")
JobId(j) == [name |-> j.name, resource |-> j.resource, action |-> j.action]
ManagedIds(js) == { JobId(Managed(js)[i]) : i \in DOMAIN Managed(js) }

\* the managed jobs a list of schedules asks for
WantedIds(schedules) ==
    { [name |-> <<schedules[k].name, "start">>,
       resource |-> schedules[k].resource, action |-> "start"] :
         k \in { x \in DOMAIN schedules : hasStart(schedules[x]) } }
    \cup
    { [name |-> <<schedules[k].name, "stop">>,
       resource |-> schedules[k].resource, action |-> "stop"] :
         k \in { x \in DOMAIN schedules : hasStop(schedules[x]) } }

\* the one-shot jobs in the order AddOneTimeJob added them, and those of them
\* whose closure the engine has started
OneTimeJobs == Untagged(jobs)
FiredJobs == { k \in DOMAIN OneTimeJobs : OneTimeJobs[k].fired }

\* the step starts the closure of a one-shot job: its invocation is executing
\* or was refused its in-flight key
OneTimeClosureStarts ==
    \/ /\ Len(execs') = Len(execs) + 1
       /\ execs'[Len(execs')].tag = ""
    \/ returned'.pc = "done" /\ returned'.inflight /\ returned'.tag = ""

StartedName ==
    IF Len(execs') = Len(execs) + 1 THEN execs'[Len(execs')].name ELSE returned'.name

\* C29: a job added by AddOneTimeJob stays in the engine whatever
\* ReplaceSchedules does, before it has fired and after; its closure is
\* started once, by the step that marks it as fired, and never again; and on
\* a scheduler that keeps running it is started.
C29_OneTimeJobOnce ==
    /\ [][ /\ \A k \in DOMAIN OneTimeJobs :
                /\ k \in DOMAIN OneTimeJobs'
                /\ OneTimeJobs'[k].name = OneTimeJobs[k].name
                /\ OneTimeJobs[k].fired => OneTimeJobs'[k].fired
           /\ IF OneTimeClosureStarts
             THEN \E k \in DOMAIN OneTimeJobs :
                     /\ FiredJobs' = FiredJobs \cup {k}
                     /\ k \notin FiredJobs
                     /\ OneTimeJobs[k].name = StartedName
             ELSE FiredJobs' = FiredJobs]_vars
    /\ \A k \in 1..(2 * MaxTicks) :
          (engine = "running" /\ k \in DOMAIN OneTimeJobs) ~> (k \in FiredJobs)

\* ReplaceSchedules has run since a one-shot job fired, and once more while
\* another one-shot job has not fired yet
C29_Witness ==
    /\ replaces = MaxReplace
    /\ lastReplace = "ok"
    /\ \E k, n \in DOMAIN OneTimeJobs : k \in FiredJobs /\ n \notin FiredJobs
    /\ engine = "running"

\* C4: after a successful ReplaceSchedules the managed jobs are exactly one
\* name:start / name:stop job per enabled action of each schedule given, no
\* earlier managed job remains, and the untagged jobs are the ones that were
\* there before.
C4_ReplaceSchedulesJobSet ==
    [][ \A schedules \in SpecLists :
          (Reload(schedules) /\ lastReplace' = "ok")
          => /\ ManagedIds(jobs') = WantedIds(schedules)
             /\ Len(Managed(jobs')) = Cardinality(WantedIds(schedules))
             /\ Untagged(jobs') = Untagged(jobs) ]_vars

\* C4 witness: a replace succeeded with an untagged job registered before it,
\* and the managed set is not the one of start-up
C4_Witness ==
    /\ lastReplace = "ok"
    /\ cfgSchedules = <<SchA2, SchK>>
    /\ ManagedIds(jobs) = WantedIds(cfgSchedules)
    /\ \E i \in DOMAIN jobs : \E k \in DOMAIN jobs :
          i < k /\ jobs[i].tag = "" /\ jobs[k].tag = managedScheduleTag

PassOver(L) ==
    { runOnce(jobs, corrections, L, now,
              [k \in DOMAIN L |->
                 CHOOSE x \in GetState(state[L[k].resource]) : x.err = fails[k]],
              metrics).jobs :
        now \in Nows, fails \in [DOMAIN L -> BOOLEAN] }

\* C30: once a reload has succeeded, the list in use is the one whose managed
\* jobs that reload registered, and a later validator tick is a pass over
\* exactly that list: every job it submits is a corrective job of a schedule
\* of the list, none is for a schedule the reload removed, and the schedules
\* the reload added are reconciled like the others.
C30_TickUsesReloadedList ==
    [][ /\ (replaces' = replaces + 1 /\ lastReplace' = "ok") =>
             jobs' = ReplaceSchedules(jobs, cfgSchedules').jobs
        /\ (Ticked /\ replaces > 0 /\ lastReplace = "ok") =>
             /\ WantedIds(cfgSchedules) = ManagedIds(jobs)
             /\ jobs' \in PassOver(cfgSchedules)
             /\ \A i \in NewJobs :
                   \E k \in DOMAIN cfgSchedules :
                      /\ jobs'[i].oneshot
                      /\ jobs'[i].name[1] = cfgSchedules[k].name
                      /\ jobs'[i].resource = cfgSchedules[k].resource
                      /\ <<jobs'[i].name[1], jobs'[i].action>> \in
                            { <<id.name[1], id.action>> : id \in ManagedIds(jobs) }]_vars

\* the tick came after a reload that replaced the schedules a and k by b: its
\* corrective job is for b and follows the managed jobs the reload registered
C30_Witness ==
    /\ replaces > 0
    /\ lastReplace = "ok"
    /\ ticks > 0
    /\ cfgSchedules = <<SchB>>
    /\ Len(jobs) = 3
    /\ jobs[1].tag = managedScheduleTag
    /\ jobs[3].oneshot
    /\ jobs[3].name[1] = SchB.name

\* -------------------------------------------------- claims: the loader
\* the documents of the schedule files of the directory, as <<file, index>>
Documents ==
    { x \in (DOMAIN FileNames) \X (1..2) :
        /\ isScheduleFile(dir, x[1])
        /\ x[2] \in DOMAIN parseScheduleFile(dir[x[1]]).schedules }

NameOf(x) == parseScheduleFile(dir[x[1]]).schedules[x[2]].name

\* two documents, of one file or of two, carry the same name
SameNameTwice == \E x, y \in Documents : x # y /\ NameOf(x) = NameOf(y)

AllFilesParse ==
    \A f \in DOMAIN FileNames :
       isScheduleFile(dir, f) => ~parseScheduleFile(dir[f]).err

Distinct(schedules) ==
    \A i, k \in DOMAIN schedules : i # k => schedules[i].name # schedules[k].name

\* C26 as stated: whenever two documents carry the same name the load fails
\* with the duplicate-schedule-name error.
C26_Original ==
    SameNameTwice => loadSchedules(dir, dirReadable).kind = "duplicate"

\* C26 as amended: whenever two documents of the schedule files carry the same
\* name the load fails, and with the duplicate-schedule-name error when the
\* directory is readable and every schedule file parses; a load that succeeds
\* returns pairwise distinct names, and so the list in use after any load or
\* reload has pairwise distinct names.
C26_DuplicateNamesRejected ==
    LET l == loadSchedules(dir, dirReadable)
    IN /\ SameNameTwice => l.err
       /\ (SameNameTwice /\ dirReadable /\ AllFilesParse) => l.kind = "duplicate"
       /\ ~l.err => Distinct(l.schedules)
       /\ Distinct(cfgSchedules)

\* a reload has just failed on a directory where one file holds a name twice,
\* and the list in use is the one loaded before
C26_Witness ==
    /\ lastTick = "called"
    /\ lastReload = "load"
    /\ \E x, y \in Documents : x # y /\ x[1] = y[1] /\ NameOf(x) = NameOf(y)
    /\ loadSchedules(dir, dirReadable).kind = "duplicate"
    /\ reloadCalls > 1

\* a reload has just failed on two files that hold the same name
C26_WitnessTwoFiles ==
    /\ lastTick = "called"
    /\ lastReload = "load"
    /\ \E x, y \in Documents : x[1] # y[1] /\ NameOf(x) = NameOf(y)
    /\ loadSchedules(dir, dirReadable).kind = "duplicate"

\* ------------------------------------------------ claims: the reloader
Signature == calcDirSignature(dir, dirReadable)

\* C5 as stated: after a reload that failed, at whichever step, the managed
\* jobs are the ones of before the reload.
C5_FailedReloadKeepsJobs ==
    [][ (tick /\ lastTick' = "called" /\ lastReload' # "ok")
          => Managed(jobs') = Managed(jobs) ]_vars

\* C7: the callback is called only by a tick that could read the directory
\* and found the signature over its schedule files to differ from the
\* baseline; a tick leaves the callback alone only when the two are equal;
\* writing a file that is no schedule file leaves the signature as it was;
\* and the callback is called at most once for a change of a schedule file.
C7_CallbackOnlyOnChange ==
    /\ [](callsSinceChange <= 1)
    /\ [][ /\ reloadCalls' # reloadCalls
                => (tick /\ ~Signature.err /\ Signature.sig # lastSig)
           /\ (tick /\ lastTick' = "unchanged")
                => (hasLastSig /\ Signature.sig = lastSig
                      /\ reloadCalls' = reloadCalls)
           /\ dir'[3] # dir[3] => Signature' = Signature ]_vars

\* C7 witness: after the one callback for a change of a schedule file, another
\* file was written and a further tick found nothing to do
C7_Witness ==
    /\ lastTick = "unchanged"
    /\ callsSinceChange = 1
    /\ reloadCalls = 1
    /\ dir[3] # NoFile
    /\ dir # InitDir

\* C8 as stated: the baseline moves only when the callback succeeds
C8_Original ==
    [][ (tick /\ lastTick' = "called" /\ lastReload' # "ok")
          => (lastSig' = lastSig /\ hasLastSig' = hasLastSig) ]_vars

\* C8, amended: a tick that called the callback sets the baseline to the
\* signature it observed whether the callback succeeded or failed; a tick
\* that could not read the directory or found the signature equal to the
\* baseline leaves the baseline as it was.
C8_BaselineFollowsCallback ==
    [][ /\ (tick /\ lastTick' = "called")
             => (hasLastSig' /\ lastSig' = Signature.sig)
        /\ (tick /\ lastTick' \in {"unreadable", "unchanged"})
             => (lastSig' = lastSig /\ hasLastSig' = hasLastSig) ]_vars

\* C8 witness: the callback has just failed and the baseline is the signature
\* of the directory that made it fail
C8_Witness ==
    /\ lastTick = "called"
    /\ lastReload \in {"load", "register"}
    /\ hasLastSig
    /\ lastSig = Signature.sig

\* C9: once the callback has failed, no step calls it again for as long as no
\* schedule file has changed since that call.
C9_NoRetryWithoutChange ==
    [][ (lastReload \in {"load", "register"} /\ callsSinceChange >= 1)
          => reloadCalls' = reloadCalls ]_vars

\* C9 witness: a tick after a failed callback, nothing changed, did nothing
C9_Witness ==
    /\ lastTick = "unchanged"
    /\ lastReload \in {"load", "register"}
    /\ callsSinceChange = 1

\* --------------------------------------- claims: the scheduler mutex
\* a closure is inside its operator call
InCloudCall(e) == e.pc = "inop"

\* Shutdown has been called and has not returned: the engine waits for the
\* running closures
WaitingForClosures == engine = "stopping" /\ Len(execs) > 0

\* C31: the scheduler mutex is never held while the engine waits for running
\* job closures that are inside a state query or an operator call, so that
\* AddOneTimeJob and ReplaceSchedules, which need the mutex, are never blocked
\* on a running cloud operation.
C31_MutexNotHeldAcrossWait ==
    mu # "free" =>
       ~(WaitingForClosures /\ \E i \in DOMAIN execs : InCloudCall(execs[i]))

\* ------------------------------------------- claims: the goroutines
\* the step in which runOnce evaluates v.cfg.Schedules
ReadsList == pass.pc = "select" /\ pass'.pc \in {"walking", "fault"}

\* reloadSchedules is storing the new list in cfg.Schedules
WritesList == reloading.pc = "writing"

\* C32: the schedule list that a validator tick iterates is never written by a
\* reload while the tick is reading it: no pass reads cfg.Schedules while
\* reloadSchedules is storing a new list there.
C32_ListNotWrittenWhileRead == [][ReadsList => ~WritesList]_vars

\* ReplaceSchedules has removed the old managed jobs and has not finished
\* registering the new ones
Replacing == reloading.pc = "replacing"

JobNames(js) == [j \in DOMAIN js |-> js[j].name]

\* C33: while ReplaceSchedules is between removing the old managed jobs and
\* finishing the registration of the new ones, no other mutation of the
\* scheduler takes effect: no step starts or shuts down the engine, and no
\* step but the registration itself adds or removes a job.
C33_MutationsExclusive ==
    [][ Replacing =>
          /\ engine' = engine
          /\ JobNames(jobs') # JobNames(jobs) => ~Replacing' ]_vars

\* --------------------------------- claims: the validator's corrections
\* the schedule has exactly one of its two actions enabled
OneAction(sch) == hasStart(sch) # hasStop(sch)

\* the state such a schedule expects and the action that brings it about
ExpectedOf(sch) ==
    IF hasStart(sch) THEN <<"running", "start">> ELSE <<"stopped", "stop">>

\* in this tick, every schedule with one action enabled whose resource was
\* reported stable got exactly one corrective job, of the expected action, if
\* the reported state differs from the expected one, and none if it does not
SubmitsIffDrift ==
    \A k \in DOMAIN cfgSchedules :
       LET sch == cfgSchedules[k]
       IN (OneAction(sch) /\ \E s \in {"running", "stopped"} : Stable(k, s)) =>
             IF Report(k).currentState # ExpectedOf(sch)[1]
             THEN Submitted(sch, ExpectedOf(sch)[2])
             ELSE NewCorrective(sch) = {}

\* the correction counter got one increment for each job of this tick, with
\* the job's resource type and action
CountedOncePerJob ==
    /\ Len(corrections') = Len(corrections) + Cardinality(NewJobs)
    /\ \A i \in NewJobs :
          corrections'[Len(corrections) + i - Len(jobs)]
             = <<jobs'[i].resource.type, jobs'[i].action>>

ClosureBegins ==
    \/ Len(execs') > Len(execs)
    \/ returned' # NoInvocation /\ returned'.inflight

\* the top-level context was cancelled and the engine's shutdown has run
ShutDown == ctxDone /\ engine = "stopped"

\* C35: once the context given to Scheduler.Start is cancelled and the
\* engine's shutdown has run, no job closure begins a new execution, not even
\* that of a one-time job that a validator tick in progress at the
\* cancellation adds afterwards.
C35_NoExecutionAfterShutdown ==
    [][ShutDown => (~ClosureBegins /\ ShutDown')]_vars

\* a pass that began before the cancellation has added a corrective job after
\* the shutdown; the job has not run
C35_Witness ==
    /\ ShutDown
    /\ pass.late
    /\ \E j \in DOMAIN jobs : jobs[j].oneshot /\ ~jobs[j].fired

\* ------------------------------------------- cron syntax specification
\* A cron expression is the sequence of its blank-separated fields: "*" is a
\* field every position accepts, "x" one that none accepts, "@daily" a
\* descriptor.
CronTokens == {"*", "x", "@daily"}
CronInputs == UNION { [1..n -> CronTokens] : n \in 0..MaxCronFields }

\* cron.Parser.Parse for a parser with the Descriptor option that takes
\* expressions of the given numbers of fields
cronParse(c, counts) ==
    IF c = <<>> THEN FALSE
    ELSE IF c[1] = "@daily" THEN Len(c) = 1
    ELSE Len(c) \in counts /\ \A k \in DOMAIN c : c[k] = "*"

\* GetLastCronTime: the parser with seconds, then the standard parser
GetLastCronTimeParses(c) == cronParse(c, {6}) \/ cronParse(c, {5})

\* gocron.CronJob(crontab, withSeconds), as NewJob sets it up
CronJob(c, withSeconds) ==
    IF withSeconds THEN cronParse(c, {5, 6}) ELSE cronParse(c, {5})

\* ScheduleToJobDefinition for a cron schedule, and the NewJob of
\* addJobUnlocked on the definition it returns
CronJobDefinition(c) == c # <<>>
CronJobRegisters(c) == CronJobDefinition(c) /\ CronJob(c, FALSE)

\* a cron expression is given to the registration and to GetLastCronTime
CallCronParsers ==
    /\ lastFire = NoCall
    /\ \E c \in CronInputs :
          lastFire' = [rule |-> "syntax", crontab |-> c,
                       registers |-> CronJobRegisters(c),
                       err |-> ~GetLastCronTimeParses(c)]
    /\ UNCHANGED <<cfgVars, stepVars, engineVars, jobs, cfgSchedules, execVars, returned,
                   state, tickVars, replaceVars, reloadVars>>

NextCron == CallCronParsers

SpecCron == InitLastFire /\ [][NextCron]_vars

\* ---------------------------------------------- claims: cron syntax
\* an expression of n fields, each acceptable at its position
WellFormed(c, n) == Len(c) = n /\ \A k \in DOMAIN c : c[k] = "*"

\* an expression that begins with a descriptor such as @daily, which is no
\* expression of fields
IsDescriptor(c) == c # <<>> /\ c[1] = "@daily"

\* C36: the firing-rule translation and the last-fire computation accept the
\* same cron expressions: both accept an expression of 6 fields (with
\* seconds) and one of 5 fields, and both reject anything else.
C36_SameCronSyntax ==
    (lastFire.rule = "syntax" /\ ~IsDescriptor(lastFire.crontab)) =>
       LET c == lastFire.crontab
       IN /\ lastFire.registers = ~lastFire.err
          /\ (WellFormed(c, 5) \/ WellFormed(c, 6)) <=> lastFire.registers

\* ---------------------------------------- claims: the loops stopping
\* a validator tick starts; a reload callback starts
TickStarts == pass.pc = "select" /\ pass'.pc \in {"walking", "fault"}
CallbackStarts == reloading.pc = "select" /\ reloading'.pc = "replacing"

\* C37 as stated: after the shared context is cancelled, no validator tick and
\* no reload callback is started.
C37_Original == [][ctxDone => ~(TickStarts \/ CallbackStarts)]_vars

\* C37 as amended: each loop returns only after the cancellation, when its
\* select takes ctx.Done(), and from then on it starts nothing; after the
\* cancellation each loop does return in the end (the validator's unless the
\* pass has faulted on a list read during its store).
C37_LoopsStop ==
    /\ [][ /\ pass.pc = "stopped" => pass' = pass
           /\ reloading.pc = "stopped" => reloading' = reloading
           /\ (pass'.pc = "stopped" \/ reloading'.pc = "stopped") => ctxDone ]_vars
    /\ ctxDone ~> (pass.pc \in {"stopped", "fault"})
    /\ ctxDone ~> (reloading.pc = "stopped")

\* the context is cancelled and both loops have returned, the validator's
\* after a pass and the reloader's after a reload
C37_Witness ==
    /\ ctxDone
    /\ pass.pc = "stopped"
    /\ reloading.pc = "stopped"
    /\ ticks = 1
    /\ replaces = 1


\* the state query of this tick failed for some schedule
SomeQueryFailed == \E j \in DOMAIN cfgSchedules : Report(j).err

\* schedule k, whose state query succeeded in this tick, calls for a
\* correction at the instant of the tick
NeedsCorrection(k) ==
    LET expected == determineExpectedState(cfgSchedules[k], seen'.now)
    IN /\ ~Report(k).isTransitional
       /\ expected[2] # ""
       /\ Report(k).currentState # expected[1]

\* C38: in a validator tick, a schedule whose state query fails gets no
\* corrective job in that tick, and the other schedules of the tick are
\* evaluated all the same: each of them gets its corrective job exactly when
\* its own reported state calls for one.
C38_FailedQuerySkipsSchedule ==
    [][Ticked =>
         \A k \in DOMAIN cfgSchedules :
            /\ Report(k).err => NewCorrective(cfgSchedules[k]) = {}
            /\ (SomeQueryFailed /\ ~Report(k).err) =>
                  (NewCorrective(cfgSchedules[k]) # {} <=> NeedsCorrection(k))]_vars

\* the first tick failed to query the first schedule's resource, submitted
\* nothing for it, and submitted a correction for the second schedule
C38_Witness ==
    /\ cfgSchedules = <<SchA, SchK>>
    /\ ticks = 1
    /\ seen.reports[1].err
    /\ ~seen.reports[2].err
    /\ \A i \in DOMAIN jobs : jobs[i].name[1] = "a" => jobs[i].tag # ""
    /\ \E i \in DOMAIN jobs :
          jobs[i].oneshot /\ jobs[i].name[1] = "k" /\ jobs[i].name[2] = "validator"

\* an invocation of a corrective one-shot job of the validator
IsCorrective(e) == e.tag = "" /\ Len(e.name) = 3 /\ e.name[2] = "validator"

\* the resource of invocation e no longer needs e's action: it is in the
\* state the action brings about, or in a transitional state
NoLongerNeeded(e) ==
    \/ state[e.resource] \notin {"running", "stopped"}
    \/ state[e.resource] = OperatorEffect(e.action, "")

\* invocation i, about to run its pre-check, is a corrective job whose
\* resource no longer needs the correction
StaleCorrection(i) ==
    /\ i \in DOMAIN execs
    /\ execs[i].pc = "locked"
    /\ IsCorrective(execs[i])
    /\ NoLongerNeeded(execs[i])

\* in this step invocation i goes from its pre-check to the operator call
CallsOperator(i) ==
    /\ Len(execs') = Len(execs)
    /\ execs[i].pc = "locked"
    /\ execs'[i].pc = "inop"

\* C39 as stated: a corrective job of the validator whose resource has
\* reached the expected state, or has become transitional, between the tick
\* that submitted it and its execution makes no operator call.
C39_Original ==
    [][\A i \in 1..MaxConcurrentJobs :
          StaleCorrection(i) => ~CallsOperator(i)]_vars

\* C39 as amended: such a job makes no operator call when the state query of
\* its own pre-check succeeds, and returns then with no call made; when that
\* query fails the closure goes on to the operator call.
C39_StaleCorrectionSkipped ==
    [][\A i \in 1..MaxConcurrentJobs :
          StaleCorrection(i) =>
             /\ CallsOperator(i) => execs'[i].g.err
             /\ (Len(execs') < Len(execs) /\ returned'.name = execs[i].name) =>
                   /\ returned'.calls = 0
                   /\ ~returned'.g.err]_vars

\* a corrective start found its resource running by the time it ran and
\* returned without an operator call
C39_Witness ==
    /\ IsCorrective(returned)
    /\ returned.pc = "done"
    /\ returned.action = "start"
    /\ returned.queries = 1
    /\ ~returned.g.err
    /\ returned.g.currentState = "running"
    /\ returned.calls = 0
    /\ returned.skips = Inc(metrics, "already_in_state")

\* C40: once a reload attempt has returned, with or without an error, the
\* schedule list the validator walks and the managed jobs of the engine come
\* from the same schedule snapshot: the managed jobs are those the
\* validator's list asks for.
C40_SameSnapshot ==
    replaces > 0 => WantedIds(cfgSchedules) = ManagedIds(jobs)

=========================================================================
